---- MODULE Spec2Model ----
(***************************************************************************)
(* Model of iotfunctions/pipeline.py: CalcPipeline (stage classification,  *)
(* preload phase, data source resolution, the stage runner, output type    *)
(* reconciliation) and the session flags it reads and writes on its entity *)
(* type.                                                                   *)
(***************************************************************************)
EXTENDS Integers, Sequences, FiniteSets, TLC

VARIABLES
    stages,                 \* self.stages: the pipeline's stage list
    is_preload_complete,    \* entity_type._is_preload_complete
    is_initial_transform,   \* entity_type._is_initial_transform (TRUE until marked complete)
    scd_stages,             \* entity_type._scd_stages: stages registered as scd lookups
    custom_calendar,        \* entity_type._custom_calendar: <<>> (none) or <<the stage>>
    calls,                  \* number of execute() calls made in this session
    pc,                     \* position inside the current operation of the pipeline
    call,                   \* arguments and captured locals of the current execute() call
    df,                     \* local df of execute(): NoDf or a dataset
    run_stages,             \* local `stages` of execute(): positions still to be processed
    preload_stages,         \* local preload_stages of _execute_preload_stages
    preload_item_names,     \* local preload_item_names of _execute_preload_stages
    secondary_sources,      \* local secondary_sources of _execute_data_sources
    special_lookup_stages,  \* local special_lookup_stages of _execute_data_sources
    remaining_stages,       \* local remaining_stages of _execute_data_sources
    replace_count,          \* local replace_count of _execute_data_sources
    idx,                    \* loop position of the loop that pc names
    events,                 \* what the current call did, in order (trace, handler, executions)
    result,                 \* how the last operation ended: returned dataset or raised error
    rec_items,              \* check_data_items_type: items argument (declared data items)
    rec_df,                 \* check_data_items_type: df argument, after the call its final state
    rec_out,                \* check_data_items_type: outcome of the call
    pexpr,                  \* a PipelineExpression: expression, name, input_items
    pexpr_out               \* PipelineExpression.execute: how the call ended

vars == <<stages, is_preload_complete, is_initial_transform, scd_stages, custom_calendar,
          calls, pc, call, df, run_stages, preload_stages, preload_item_names,
          secondary_sources, special_lookup_stages, remaining_stages, replace_count,
          idx, events, result, rec_items, rec_df, rec_out, pexpr, pexpr_out>>

\* ------------------------------------------------------------------ bounds
MaxStages == 2
MaxCalls == 2
MaxClassifyLen == 2
MaxItems == 3

\* ------------------------------------------------------------------ helpers
SeqsUpTo(S, n) == UNION {[1..k -> S] : k \in 0..n}

Range(s) == {s[i] : i \in DOMAIN s}

\* ------------------------------------------------------------------ stages
\* A stage is what the pipeline probes on it with getattr/try-except AttributeError.
\* Attribute values are "absent" (AttributeError), "true", "false", or a merge method.
MkStage(pre, ds, mm, scd, cal, abort, out) ==
    [is_preload |-> pre, is_data_source |-> ds, merge_method |-> mm,
     is_scd_lookup |-> scd, is_custom_calendar |-> cal,
     abort_on_fail |-> abort, output_item |-> out]

Truthy(a) == a = "true"

\* _extract_preload_stages, lines 60-63: is_preload, False when the attribute is absent
IsPreload(s) == IF s.is_preload = "absent" THEN FALSE ELSE Truthy(s.is_preload)

\* _execute_data_sources, lines 122-127: both attributes are read in one try block
IsDataSource(s) ==
    IF s.is_data_source = "absent" \/ s.merge_method = "absent" THEN FALSE
    ELSE Truthy(s.is_data_source)

MergeMethod(s) ==
    IF s.is_data_source = "absent" \/ s.merge_method = "absent" THEN "none"
    ELSE s.merge_method

\* lines 129-141
IsScdLookup(s) == IF s.is_scd_lookup = "absent" THEN FALSE ELSE Truthy(s.is_scd_lookup)
IsCustomCalendar(s) ==
    IF s.is_custom_calendar = "absent" THEN FALSE ELSE Truthy(s.is_custom_calendar)

\* lines 133-134, 140-141: the else branch of the try registers the stage whenever
\* the attribute exists, whatever its value
RegistersScd(s) == s.is_scd_lookup # "absent"
RegistersCalendar(s) == s.is_custom_calendar # "absent"

BucketOuterFirst(s) ==
    IF IsDataSource(s) /\ MergeMethod(s) = "outer" THEN "outer"
    ELSE IF IsScdLookup(s) \/ IsCustomCalendar(s) THEN "lookup"
    ELSE IF IsDataSource(s) /\ MergeMethod(s) = "replace" THEN "replace"
    ELSE "ordinary"

\* _execute_data_sources, lines 143-165: the if/elif chain that routes one stage
Bucket(s) ==
    IF IsDataSource(s) /\ MergeMethod(s) = "replace" THEN "replace"
    ELSE IF IsDataSource(s) /\ MergeMethod(s) = "outer" THEN "outer"
    ELSE IF IsScdLookup(s) \/ IsCustomCalendar(s) THEN "lookup"
    ELSE "ordinary"

RECURSIVE ExtractLoop(_, _, _)
\* _extract_preload_stages, lines 59-70: the loop body, from position i on
ExtractLoop(ss, i, acc) ==
    IF i > Len(ss) THEN acc
    ELSE ExtractLoop(ss, i + 1,
            IF IsPreload(ss[i])
            THEN [acc EXCEPT !.extracted = Append(@, i)]
            ELSE [acc EXCEPT !.stages = Append(@, i)])

\* _extract_preload_stages, lines 57-72: (extracted_stages, stages) as positions in ss
ExtractPreloadStages(ss) == ExtractLoop(ss, 1, [extracted |-> <<>>, stages |-> <<>>])

\* The role a stage has in an initial-transform run: preload extraction first
\* (line 232), then the routing of _execute_data_sources (line 241).
Role(s) == IF IsPreload(s) THEN "preload" ELSE Bucket(s)

\* ------------------------------------------------------------------ datasets
\* A dataset (pandas DataFrame) is its ordered columns, each with a runtime dtype,
\* and its rows, each a sequence of cells aligned with the columns. A cell is "v"
\* (a finite non-null value), "nan" (null), "inf" or "-inf". none = TRUE is Python's None.
NoDf == [none |-> TRUE, cols |-> <<>>, rows |-> <<>>]

Frame(cols, rows) == [none |-> FALSE, cols |-> cols, rows |-> rows]

Col(name, dtype) == [name |-> name, dtype |-> dtype]

\* DataFrame.empty: no rows or no columns
Empty(d) == Len(d.rows) = 0 \/ Len(d.cols) = 0

ColNames(d) == [i \in 1..Len(d.cols) |-> d.cols[i].name]

HasCol(d, name) == \E i \in 1..Len(d.cols) : d.cols[i].name = name

ColPos(d, name) == CHOOSE i \in 1..Len(d.cols) : d.cols[i].name = name

\* the rows of rs from position i on whose position is in the set keep, in order
FilterRows(rs, i, keep) ==
    LET kept == SelectSeq([r \in 1..Len(rs) |-> r], LAMBDA r : r >= i /\ r \in keep)
    IN [k \in 1..Len(kept) |-> rs[kept[k]]]

\* df.replace([np.inf, -np.inf], np.nan), lines 262 and 370
ReplaceInf(d) ==
    [d EXCEPT !.rows = [r \in 1..Len(d.rows) |->
        [c \in 1..Len(d.rows[r]) |->
            IF d.rows[r][c] \in {"inf", "-inf"} THEN "nan" ELSE d.rows[r][c]]]]

\* df.dropna(), lines 263 and 371: how='any' over all columns
DropNa(d) ==
    [d EXCEPT !.rows = FilterRows(d.rows, 1,
        {r \in 1..Len(d.rows) : \A c \in 1..Len(d.cols) : d.rows[r][c] # "nan"})]

\* df.dropna(how='all', subset=subset), line 277: a row stays when it is non-null
\* in at least one column of subset
DropNaAll(d, subset) ==
    [d EXCEPT !.rows = FilterRows(d.rows, 1,
        {r \in 1..Len(d.rows) :
            \E c \in 1..Len(d.cols) : d.cols[c].name \in subset /\ d.rows[r][c] # "nan"})]

\* df[name] = True, line 284: overwrite the column or append it
SetColTrue(d, name) ==
    IF HasCol(d, name)
    THEN LET p == ColPos(d, name)
         IN [d EXCEPT !.cols[p].dtype = "bool",
                      !.rows = [r \in 1..Len(d.rows) |-> [d.rows[r] EXCEPT ![p] = "v"]]]
    ELSE [d EXCEPT !.cols = Append(@, Col(name, "bool")),
                   !.rows = [r \in 1..Len(d.rows) |-> Append(d.rows[r], "v")]]

RECURSIVE AddPreloadCols(_, _, _)
\* lines 283-284: one dummy column per preloaded item name
AddPreloadCols(d, names, i) ==
    IF i > Len(names) THEN d ELSE AddPreloadCols(SetColTrue(d, names[i]), names, i + 1)

\* ------------------------------------------------------------------ type reconciliation
\* Runtime dtypes. "object" is a column of Python objects whose values ("v") are
\* text strings, "object_date" one whose values are date strings; both have the
\* dtype name "object". A missing cell ("nan") of either is None or NaN.
DTypes == {"float64", "int64", "bool", "datetime64[ns]", "object", "object_date"}

ColumnTypes == {"NUMBER", "LITERAL", "TIMESTAMP", "BOOLEAN", "JSON"}

\* df_column.dtype.name
DTypeName(t) == IF t = "object_date" THEN "object" ELSE t

\* pandas.api.types predicates used by check_data_items_type
is_numeric_dtype(t) == t \in {"float64", "int64", "bool"}
is_bool_dtype(t) == t = "bool"
is_string_dtype(t) == t \in {"object", "object_date"}
is_datetime64_any_dtype(t) == t = "datetime64[ns]"

\* lines 593, 606, 618, 630: the test that starts a coercion attempt
Mismatch(t, ctype) ==
    CASE ctype = "NUMBER" -> ~is_numeric_dtype(t) \/ is_bool_dtype(t)
      [] ctype = "LITERAL" -> ~is_string_dtype(t)
      [] ctype = "TIMESTAMP" -> ~is_datetime64_any_dtype(t)
      [] ctype = "BOOLEAN" -> ~is_bool_dtype(t)
      [] OTHER -> FALSE

\* the cells of column p of a dataset
CellsOf(d, p) == {d.rows[r][p] : r \in 1..Len(d.rows)}

\* What the casts of lines 599-635 do differs between the pandas releases the
\* program runs on, in three places: whether pd.to_datetime gives NaT for an
\* infinite value (before pandas 2) or raises; whether it looks at a bool column
\* value by value, succeeding when there is none (before pandas 1), or rejects the
\* dtype; and whether astype('bool') accepts a datetime64 column. A release is the
\* three answers.
PandasReleases ==
    {[inf_is_nat |-> TRUE, bool_by_value |-> TRUE, datetime_to_bool |-> FALSE],
     [inf_is_nat |-> TRUE, bool_by_value |-> FALSE, datetime_to_bool |-> FALSE],
     [inf_is_nat |-> TRUE, bool_by_value |-> FALSE, datetime_to_bool |-> TRUE],
     [inf_is_nat |-> FALSE, bool_by_value |-> FALSE, datetime_to_bool |-> FALSE],
     [inf_is_nat |-> FALSE, bool_by_value |-> FALSE, datetime_to_bool |-> TRUE]}

\* lines 599, 611, 623, 635: astype('float64'), astype('str'), pd.to_datetime,
\* astype('bool') on a column of dtype t holding cells, under the pandas release
\* lib; the dtype of the coerced column, or "fail" when the cast raises. A cast of
\* an object column works value by value: it raises on a text that is no number
\* (no date), and succeeds on a column with no row or with missing values only.
Coerce(t, ctype, cells, lib) ==
    CASE ctype = "NUMBER" ->
            IF t = "bool" THEN "float64"
            ELSE IF t \in {"object", "object_date"} /\ "v" \notin cells THEN "float64"
            ELSE "fail"
      [] ctype = "LITERAL" ->
            IF t = "datetime64[ns]" THEN "object_date" ELSE "object"
      [] ctype = "TIMESTAMP" ->
            IF cells \cap {"inf", "-inf"} # {} /\ ~lib.inf_is_nat THEN "fail"
            ELSE IF t \in {"float64", "int64", "object_date"} THEN "datetime64[ns]"
            ELSE IF t = "object" /\ "v" \notin cells THEN "datetime64[ns]"
            ELSE IF t = "bool" /\ cells = {} /\ lib.bool_by_value THEN "datetime64[ns]"
            ELSE "fail"
      [] ctype = "BOOLEAN" ->
            IF t \in {"float64", "int64", "object", "object_date"} THEN "bool"
            ELSE IF t = "datetime64[ns]" /\ lib.datetime_to_bool THEN "bool"
            ELSE "fail"
      [] OTHER -> "fail"

\* the cell after a successful cast to dtype t: astype('bool') and astype('str')
\* turn a missing or infinite value into a value (True or False, 'nan', 'inf');
\* astype('float64') keeps a missing or infinite value as it is; pd.to_datetime
\* keeps a missing value missing and, where it succeeds on an infinite value,
\* makes it missing (NaT)
CoerceCell(cell, t) ==
    IF t \in {"bool", "object", "object_date"} THEN "v"
    ELSE IF t = "datetime64[ns]" /\ cell \in {"inf", "-inf"} THEN "nan"
    ELSE cell

\* lines 599, 611, 623, 635: df[name] = the coerced column
AssignCoerced(d, p, t) ==
    [d EXCEPT !.cols[p].dtype = t,
              !.rows = [r \in 1..Len(d.rows) |->
                            [d.rows[r] EXCEPT ![p] = CoerceCell(@, t)]]]

\* a declared data item: items.get(item) gives its name and columnType
Item(name, ctype) == [name |-> name, columnType |-> ctype]

ReconcileStepNoAssign(acc, item, lib) ==
    IF ~HasCol(acc.df, item.name) THEN acc
    ELSE LET p == ColPos(acc.df, item.name)
             t == acc.df.cols[p].dtype
         IN IF ~Mismatch(t, item.columnType) THEN acc
            ELSE IF Coerce(t, item.columnType, CellsOf(acc.df, p), lib) # "fail" THEN acc
            ELSE [acc EXCEPT !.invalid =
                     Append(@, <<item.name, DTypeName(t), item.columnType>>)]

ReconcileStepStopAtFirst(acc, item, lib) ==
    IF Len(acc.invalid) > 0 \/ ~HasCol(acc.df, item.name) THEN acc
    ELSE LET p == ColPos(acc.df, item.name)
             t == acc.df.cols[p].dtype
         IN IF ~Mismatch(t, item.columnType) THEN acc
            ELSE IF Coerce(t, item.columnType, CellsOf(acc.df, p), lib) # "fail"
            THEN [acc EXCEPT !.df = AssignCoerced(acc.df, p,
                                        Coerce(t, item.columnType, CellsOf(acc.df, p), lib))]
            ELSE [acc EXCEPT !.invalid =
                     Append(@, <<item.name, DTypeName(t), item.columnType>>)]

\* check_data_items_type, lines 582-638: the loop body for one declared item
ReconcileStep(acc, item, lib) ==
    IF ~HasCol(acc.df, item.name) THEN acc
    ELSE LET p == ColPos(acc.df, item.name)
             t == acc.df.cols[p].dtype
         IN IF ~Mismatch(t, item.columnType) THEN acc
            ELSE IF Coerce(t, item.columnType, CellsOf(acc.df, p), lib) # "fail"
            THEN [acc EXCEPT !.df = AssignCoerced(acc.df, p,
                                        Coerce(t, item.columnType, CellsOf(acc.df, p), lib))]
            ELSE [acc EXCEPT !.invalid =
                     Append(@, <<item.name, DTypeName(t), item.columnType>>)]

RECURSIVE ReconcileLoop(_, _, _, _)
\* check_data_items_type, line 582: for item in list(items.data_items)
ReconcileLoop(acc, items, i, lib) ==
    IF i > Len(items) THEN acc
    ELSE ReconcileLoop(ReconcileStep(acc, items[i], lib), items, i + 1, lib)

\* check_data_items_type, lines 640-648: after the loop, the call raises when a
\* triple was recorded
TypeOutcome(acc) ==
    [df |-> acc.df, invalid |-> acc.invalid, raised |-> Len(acc.invalid) > 0]

\* check_data_items_type, lines 569-648, under the pandas release lib: the
\* dataset after in-place coercion, the
\* irreconcilable (item, actual type, declared type) triples, and whether it raises
check_data_items_type(d, items, lib) ==
    TypeOutcome(IF d.none THEN [df |-> d, invalid |-> <<>>]
                ELSE ReconcileLoop([df |-> d, invalid |-> <<>>], items, 1, lib))

\* ------------------------------------------------------------------ session collaborator
\* Column names are pairs <<kind, n>>.
K == <<"sys", 0>>
E == <<"excluded", 0>>
X == <<"item", 1>>
Y == <<"item", 2>>
OutCol(pos) == <<"out", pos>>
PreloadItem(pos) == <<"preload", pos>>

\* entity_type._system_columns (get_system_columns, line 416)
SystemColumns == {K}
\* entity_type.get_param('_custom_exclude_col_from_auto_drop_nulls'), line 267
CustomExcludeCols == {E}

\* entity_type.get_data_items(), line 565: the declared data items of the session
DataItems ==
    <<Item(X, "NUMBER"), Item(Y, "NUMBER")>>
    \o [i \in 1..MaxStages |-> Item(OutCol(i), "NUMBER")]

\* entity_type.raise_error(exception, abort_on_fail, stageName): the central fault
\* handler re-raises when abort_on_fail is set and otherwise logs and returns
HandlerRaises(abort_on_fail) == abort_on_fail

\* ------------------------------------------------------------------ events
\* One entry per observable step of the current execute() call: what happened, the
\* position of the stage it is about (0 for none), a detail, the abort_on_fail flag
\* handed to the fault handler ("na" elsewhere), and the dataset a trace entry carries.
\* The entry of an execute call that raised also carries the classes the error is
\* an instance of (classes, empty elsewhere).
EvDf(ev, pos, info, abort, d) ==
    [ev |-> ev, stage |-> pos, info |-> info, abort |-> abort, df |-> d, classes |-> {}]

Ev(ev, pos, info, abort) == EvDf(ev, pos, info, abort, NoDf)

AbortStr(b) == IF b THEN "true" ELSE "false"

\* ------------------------------------------------------------------ stage runner
BaseCols == <<Col(K, "object"), Col(E, "float64"), Col(X, "float64"), Col(Y, "float64")>>
FrameEmpty == Frame(BaseCols, <<>>)
FrameA == Frame(BaseCols, << <<"v", "v", "v", "v">> >>)
FrameB == Frame(BaseCols, << <<"v", "nan", "v", "nan">>, <<"v", "v", "nan", "nan">>,
                             <<"v", "v", "inf", "nan">> >>)

\* append one column with the same cell in every row
AddCol(d, name, dtype, cell) ==
    [d EXCEPT !.cols = Append(@, Col(name, dtype)),
              !.rows = [r \in 1..Len(d.rows) |-> Append(d.rows[r], cell)]]

\* What a stage's execute returns for input d: the stage is user code, so its output
\* is one of a menu of behaviours.
StageOutput(d, pos, out) ==
    CASE out = "same" -> d
      [] out = "frame_a" -> FrameA
      [] out = "frame_b" -> FrameB
      [] out = "frame_empty" -> FrameEmpty
      [] out = "append_a" ->
            [d EXCEPT !.rows = Append(@, [c \in 1..Len(d.cols) |-> "v"])]
      [] out = "clear" -> [d EXCEPT !.rows = <<>>]
      [] out = "null_row" ->
            [d EXCEPT !.rows = Append(@, [c \in 1..Len(d.cols) |->
                            IF d.cols[c].name \in SystemColumns THEN "v" ELSE "nan"])]
      [] out = "add_v" ->
            IF HasCol(d, OutCol(pos)) THEN d ELSE AddCol(d, OutCol(pos), "float64", "v")
      [] out = "add_nan" ->
            IF HasCol(d, OutCol(pos)) THEN d ELSE AddCol(d, OutCol(pos), "float64", "nan")
      [] out = "add_bool" ->
            IF HasCol(d, OutCol(pos)) THEN d ELSE AddCol(d, OutCol(pos), "bool", "v")
      [] out = "add_text" ->
            IF HasCol(d, OutCol(pos)) THEN d ELSE AddCol(d, OutCol(pos), "object", "v")
      [] OTHER -> d

\* How a call ends: its name is "ok" (it returned), "na" (it was not made), "run"
\* (validate_df ran through to the type check) or the name of the class of the
\* error it raised, and classes are the classes that error is an instance of, its
\* own class and every base class of it, which is what an except clause tests. The
\* TypeError of a call rejected before the stage's body runs has the name
\* "TypeError_signature".
Outcome(name, classes) == [name |-> name, classes |-> classes]

\* A behaviour of one stage run: what conform_index does ("absent", "ok", "KeyError"),
\* how the full-form call ends, how the reduced-form call ends, what the successful
\* call returns, and how validate_df ends when it does not reach the type check.
Beh(conform, full, reduced, out, validate) ==
    [conform |-> conform, full |-> full, reduced |-> reduced, out |-> out,
     validate |-> validate]

EffectiveAbortIgnoreOverride(s, abort_on_fail) == abort_on_fail

\* _execute_stage, lines 312-315: the stage's own _abort_on_fail wins over the argument
EffectiveAbort(s, abort_on_fail) ==
    IF s.abort_on_fail = "absent" THEN abort_on_fail ELSE Truthy(s.abort_on_fail)

\* isinstance(e, cls) for the error e of a call that ended as exc, as an except
\* clause tests it
IsInstance(exc, cls) == cls \in exc.classes

\* _execute_stage, lines 337-355: the first except clause that catches the error
\* exc, named by the trace note it appends
TraceNote(exc) ==
    IF IsInstance(exc, "AttributeError") THEN "error:missing_property"
    ELSE IF IsInstance(exc, "SyntaxError") THEN "error:syntax"
    ELSE IF IsInstance(exc, "ValueError") \/ IsInstance(exc, "TypeError")
    THEN "error:value_or_type"
    ELSE IF IsInstance(exc, "NameError") THEN "error:missing_object"
    ELSE "error:failed"

\* the error that leaves the execute call of lines 333-336 (name "none": no error):
\* a TypeError of the full-form call is caught at line 335 and the reduced-form
\* call decides
ExecError(b) ==
    IF b.full.name = "ok" THEN Outcome("none", {})
    ELSE IF IsInstance(b.full, "TypeError")
         THEN (IF b.reduced.name = "ok" THEN Outcome("none", {}) ELSE b.reduced)
         ELSE b.full

FailureEventsHandlerFirst(pos, note, exc, abort, d) ==
    <<Ev("raise_error", pos, exc, AbortStr(abort)), EvDf("trace", pos, note, "na", d)>>

\* _execute_stage, lines 326-328 and 338-355: every except clause appends its note
\* about the stage to the trace and then calls entity_type.raise_error with the
\* exception, the abort_on_fail flag and the stage name
FailureEvents(pos, note, exc, abort, d) ==
    <<EvDf("trace", pos, note, "na", d), Ev("raise_error", pos, exc, AbortStr(abort))>>

ValidateCatchesAll(exc) == TRUE

\* _execute_stage, lines 357-361: only an AttributeError from validate_df is swallowed
\* (line 359)
ValidateCatches(exc) == IsInstance(exc, "AttributeError")

\* _execute_stage, lines 321-377, for the abort flag in force, the dataset out the
\* stage's execute returns and the outcome checked of the type check on it
StageOutcome(pos, d, register, dropna, abort, b, out, checked) ==
    LET \* lines 321-328
        conformEv == IF b.conform = "KeyError"
                     THEN FailureEvents(pos, "error:KeyError", "KeyError", abort, d)
                     ELSE <<>>
        conformStop == b.conform = "KeyError" /\ HandlerRaises(abort)
        \* lines 330-336
        callEv == <<EvDf("trace", pos, "stage", "na", d),
                    [Ev("execute_full", pos, b.full.name, "na")
                        EXCEPT !.classes = b.full.classes]>>
                  \o (IF IsInstance(b.full, "TypeError")
                      THEN <<[Ev("execute_reduced", pos, b.reduced.name, "na")
                                 EXCEPT !.classes = b.reduced.classes]>>
                      ELSE <<>>)
        exc == ExecError(b)
        \* lines 337-355
        failEv == IF exc.name # "none"
                  THEN FailureEvents(pos, TraceNote(exc), exc.name, abort, NoDf)
                  ELSE <<>>
        failStop == exc.name # "none" /\ HandlerRaises(abort)
        \* lines 357-361: validate_df(df, newdf); newdf is unbound after a suppressed
        \* failure; the aggregate error of the type check is a plain Exception
        typeCheckRaised == exc.name = "none" /\ b.validate.name = "run" /\ checked.raised
        validateExc == IF exc.name # "none"
                       THEN Outcome("UnboundLocalError",
                                    {"UnboundLocalError", "NameError", "Exception",
                                     "BaseException"})
                       ELSE IF b.validate.name # "run" THEN b.validate
                       ELSE IF checked.raised
                       THEN Outcome("Exception", {"Exception", "BaseException"})
                       ELSE Outcome("none", {})
        validateStop == validateExc.name # "none" /\ ~ValidateCatches(validateExc)
        \* check_data_items_type logs the aggregate error (line 647) before it raises
        validated == IF b.validate.name # "run" THEN out ELSE checked.df
        validateEv == IF typeCheckRaised
                      THEN <<Ev("type_error", pos, "irreconcilable", "na")>> ELSE <<>>
        \* lines 362-368
        registerEv == IF register THEN <<Ev("register", pos, "stage", "na")>> ELSE <<>>
        \* lines 369-371
        cleaned == IF dropna THEN DropNa(ReplaceInf(validated)) ELSE validated
        doneEv == <<EvDf("trace", pos, "completed", "na", cleaned)>>
    IN  IF conformStop
        THEN [events |-> conformEv, exc |-> "KeyError", df |-> d]
        ELSE IF failStop
        THEN [events |-> conformEv \o callEv \o failEv, exc |-> exc.name, df |-> d]
        ELSE IF validateStop
        THEN [events |-> conformEv \o callEv \o failEv \o validateEv,
              exc |-> validateExc.name, df |-> d]
        ELSE [events |-> conformEv \o callEv \o validateEv \o registerEv \o doneEv,
              exc |-> "none", df |-> cleaned]

\* _execute_stage, lines 311-377. Result: the events in order, exc = "none" and the
\* returned dataset, or exc = the class of the error that leaves the method. The
\* session's data items are all NUMBER, and the cast to float64 is the same in
\* every pandas release, so the type check is taken under any one of them.
execute_stage(pos, s, d, register, dropna, abort_on_fail, b) ==
    StageOutcome(pos, d, register, dropna, EffectiveAbort(s, abort_on_fail), b,
                 StageOutput(d, pos, b.out),
                 check_data_items_type(StageOutput(d, pos, b.out), DataItems,
                                       CHOOSE lib \in PandasReleases : TRUE))

\* ------------------------------------------------------------------ inputs
Preload(out) == MkStage("true", "absent", "absent", "absent", "absent", "absent", out)
Source(mm, abort) == MkStage("absent", "true", mm, "absent", "absent", abort, "absent")
ScdLookup(abort) == MkStage("absent", "absent", "absent", "true", "absent", abort, "absent")
Calendar(abort) == MkStage("absent", "absent", "absent", "absent", "true", abort, "absent")
Ordinary(abort) == MkStage("absent", "absent", "absent", "absent", "absent", abort, "absent")

\* the stages a pipeline is built from
StageUniverse ==
    {Preload("present"), Preload("absent"),
     Source("replace", "absent"), Source("replace", "false"),
     Source("outer", "absent"),
     ScdLookup("true"), Calendar("absent"),
     Ordinary("absent"), Ordinary("false")}

\* the stage lists a pipeline is constructed with: no two stages alike
StageLists ==
    {ss \in SeqsUpTo(StageUniverse, MaxStages) :
        \A i, j \in 1..Len(ss) : i # j => ss[i] # ss[j]}

\* the arguments of execute(): df, dropna, register, whether a start and an end
\* timestamp are in force (given by the caller or by the session's override, lines
\* 218-223), the caller's preloaded_item_names, and the session parameter
\* _drop_all_null_rows that the call reads (line 265)
CallArgs(d, dropna, register, dropnull, start_ts, end_ts, names) ==
    [df |-> d, dropna |-> dropna, register |-> register, dropnull |-> dropnull,
     start_ts |-> start_ts, end_ts |-> end_ts, names |-> names]

\* an item name a caller hands in as already preloaded
CallerItem == <<"preload", 0>>

CallInputs ==
    {CallArgs(NoDf, FALSE, FALSE, FALSE, FALSE, FALSE, <<>>),
     CallArgs(NoDf, TRUE, TRUE, TRUE, TRUE, FALSE, <<>>),
     CallArgs(FrameA, FALSE, TRUE, FALSE, TRUE, TRUE, <<CallerItem>>),
     CallArgs(FrameB, FALSE, FALSE, TRUE, FALSE, TRUE, <<>>),
     CallArgs(FrameB, TRUE, FALSE, FALSE, FALSE, FALSE, <<>>)}
\* entity_type.get_data(), line 237
EntityFrames == {FrameA, FrameEmpty}

\* the stages a user adds to a pipeline, and the arguments of set_stages
AddStageInputs == {Ordinary("absent")}
SetStagesInputs ==
    {[kind |-> "none", value |-> <<>>],
     [kind |-> "stage", value |-> Preload("present")],
     [kind |-> "list", value |-> <<ScdLookup("true"), Ordinary("absent")>>]}

\* the errors a stage's body raises: the classes the except clauses of lines
\* 337-355 name, a subclass of one of them, and a class none of them names
ErrorClasses ==
    {Outcome(e[1], {e[1]} \cup e[2] \cup {"Exception", "BaseException"}) :
        e \in {<<"AttributeError", {}>>, <<"SyntaxError", {}>>, <<"ValueError", {}>>,
               <<"TypeError", {}>>, <<"NameError", {}>>,
               <<"UnicodeError", {"ValueError"}>>, <<"Exception", {}>>}}

\* the behaviours a stage of each role can show in one run
SourceBehaviours(bucket) ==
    LET ok == Outcome("ok", {})
        na == Outcome("na", {})
        run == Outcome("run", {})
    IN {Beh("absent", ok, na, o, run) :
           o \in (CASE bucket = "replace" -> {"frame_a", "frame_b", "frame_empty"}
                    [] bucket = "outer" -> {"append_a", "same"}
                    [] OTHER -> {"add_v", "clear"})}
       \cup {Beh("absent", e, na, "same", run) : e \in {c \in ErrorClasses : c.name = "ValueError"}}

OrdinaryBehaviours ==
    LET ok == Outcome("ok", {})
        na == Outcome("na", {})
        run == Outcome("run", {})
        Named(n) == CHOOSE c \in ErrorClasses : c.name = n
        signature == Outcome("TypeError_signature", Named("TypeError").classes)
    IN {Beh("absent", ok, na, o, run) :
           o \in {"add_v", "add_nan", "add_text", "clear", "null_row"}}
       \cup {Beh("absent", e, na, "same", run) : e \in ErrorClasses \ {Named("TypeError")}}
       \cup {Beh("absent", signature, ok, "add_bool", run),
             Beh("absent", signature, Named("ValueError"), "same", run),
             Beh("absent", Named("TypeError"), ok, "add_v", run),
             Beh("absent", Named("TypeError"), Named("TypeError"), "same", run),
             Beh("KeyError", ok, na, "add_v", run),
             Beh("ok", ok, na, "add_v", Named("AttributeError"))}

Behaviours(s) ==
    IF Bucket(s) = "ordinary" THEN OrdinaryBehaviours ELSE SourceBehaviours(Bucket(s))

\* how a call ended; at names the phase an error came out of
NoResult == [kind |-> "none", exc |-> "none", df |-> NoDf, at |-> "none"]
Returned(d) == [kind |-> "returned", exc |-> "none", df |-> d, at |-> "none"]
Raised(exc, at) == [kind |-> "raised", exc |-> exc, df |-> NoDf, at |-> at]

\* outcome of a check_data_items_type call, and the pandas release it ran under
\* (before the call: no outcome, and a release that plays no part)
NoOutcome ==
    [kind |-> "none", invalid |-> <<>>,
     release |-> [inf_is_nat |-> FALSE, bool_by_value |-> FALSE, datetime_to_bool |-> FALSE]]

NoCall == [dropna |-> FALSE, register |-> FALSE, drop_all_null_rows |-> FALSE,
           initial |-> FALSE, lookups |-> FALSE, supplied |-> FALSE, names |-> <<>>]

\* no PipelineExpression under consideration
NoExpr == [expression |-> <<>>, name |-> <<>>, input_items |-> <<>>]

IdxSeq(n) == [i \in 1..n |-> i]

\* ------------------------------------------------------------------ initial state
\* A pipeline constructed over a fresh entity type: no call made, both session
\* flags in their constructed state, nothing registered.
Init ==
    /\ stages \in StageLists
    /\ is_preload_complete = FALSE
    /\ is_initial_transform = TRUE
    /\ scd_stages = <<>>
    /\ custom_calendar = <<>>
    /\ calls = 0
    /\ pc = "idle"
    /\ call = NoCall
    /\ df = NoDf
    /\ run_stages = <<>>
    /\ preload_stages = <<>>
    /\ preload_item_names = <<>>
    /\ secondary_sources = <<>>
    /\ special_lookup_stages = <<>>
    /\ remaining_stages = <<>>
    /\ replace_count = 0
    /\ idx = 0
    /\ events = <<>>
    /\ result = NoResult
    /\ rec_items = <<>>
    /\ rec_df = NoDf
    /\ rec_out = NoOutcome
    /\ pexpr = NoExpr
    /\ pexpr_out = NoResult

sessionVars == <<is_preload_complete, is_initial_transform, scd_stages, custom_calendar>>
bucketVars == <<secondary_sources, special_lookup_stages, remaining_stages, replace_count>>
recVars == <<rec_items, rec_df, rec_out>>
exprVars == <<pexpr, pexpr_out>>

\* ------------------------------------------------------------------ execute()
InitialBranchAlways(flag) == TRUE

\* execute, lines 212 and 224: the initial-transform branch is taken while the
\* session's _is_initial_transform is still set
InitialBranch(flag) == flag

\* execute, lines 225-230: an initial-transform run notes the start and the end
\* timestamp on the trace when there is one
TimestampNotes(start_ts, end_ts) ==
    (IF start_ts THEN <<Ev("trace", 0, "start_ts", "na")>> ELSE <<>>)
    \o (IF end_ts THEN <<Ev("trace", 0, "end_ts", "na")>> ELSE <<>>)

\* execute, lines 202-232 and 252-254, with _execute_preload_stages lines 80-81:
\* the call starts, reads the initial-transform status and either extracts the
\* preload stages or takes every stage as is. The timestamps and entities are
\* handed through to the stages unchanged and to_csv only writes debug files, so
\* they are no part of the state.
ExecuteCall(a) ==
    /\ pc \in {"idle", "done"}
    /\ calls < MaxCalls
    /\ calls' = calls + 1
    /\ call' = [dropna |-> a.dropna, register |-> a.register,
                drop_all_null_rows |-> a.dropnull, initial |-> is_initial_transform,
                lookups |-> FALSE, supplied |-> ~a.df.none, names |-> a.names]
    /\ df' = a.df
    /\ result' = NoResult
    /\ preload_item_names' = <<>>
    /\ secondary_sources' = <<>>
    /\ special_lookup_stages' = <<>>
    /\ remaining_stages' = <<>>
    /\ replace_count' = 0
    /\ idx' = 1
    /\ IF InitialBranch(is_initial_transform)
       THEN /\ events' = TimestampNotes(a.start_ts, a.end_ts)
            /\ preload_stages' = ExtractPreloadStages(stages).extracted
            /\ run_stages' = ExtractPreloadStages(stages).stages
            /\ pc' = "preload"
       ELSE /\ events' = <<>>
            /\ preload_stages' = <<>>
            /\ run_stages' = IdxSeq(Len(stages))
            /\ pc' = "post"
    /\ UNCHANGED <<stages, sessionVars, recVars, exprVars>>

\* Between two calls nothing of a call is left but its outcome: an operation other
\* than execute starts from the session and the stage list alone.
BetweenCalls ==
    /\ call' = NoCall
    /\ df' = NoDf
    /\ run_stages' = <<>>
    /\ preload_stages' = <<>>
    /\ preload_item_names' = <<>>
    /\ secondary_sources' = <<>>
    /\ special_lookup_stages' = <<>>
    /\ remaining_stages' = <<>>
    /\ replace_count' = 0
    /\ idx' = 0
    /\ events' = <<>>
    /\ pc' = "idle"

\* add_stage, lines 41-46: the stage is told its entity type and appended; a stage
\* without set_entity_type makes the call fail before the list is touched
add_stage(s, has_setter) ==
    /\ pc \in {"idle", "done"}
    /\ Len(stages) < MaxStages
    /\ IF has_setter
       THEN /\ stages' = Append(stages, s)
            /\ result' = NoResult
       ELSE /\ result' = Raised("AttributeError", "add_stage")
            /\ UNCHANGED stages
    /\ BetweenCalls
    /\ UNCHANGED <<sessionVars, calls, recVars, exprVars>>

\* add_expression, lines 33-39: the stage built is a PipelineExpression, which has
\* no set_entity_type, so add_stage fails on it
add_expression ==
    /\ pc \in {"idle", "done"}
    /\ result' = Raised("AttributeError", "add_expression")
    /\ BetweenCalls
    /\ UNCHANGED <<stages, sessionVars, calls, recVars, exprVars>>

\* set_stages, lines 474-478: None gives the empty list, a single stage a list of one
StagesFrom(arg) ==
    IF arg.kind = "none" THEN <<>>
    ELSE IF arg.kind = "stage" THEN <<arg.value>>
    ELSE arg.value

\* set_stages, lines 470-483: the stage list is replaced; each stage is told its
\* entity type one way or the other
set_stages(arg) ==
    /\ pc \in {"idle", "done"}
    /\ stages' = StagesFrom(arg)
    /\ result' = NoResult
    /\ BetweenCalls
    /\ UNCHANGED <<sessionVars, calls, recVars, exprVars>>

\* mark_initial_transform_complete, lines 436-437
mark_initial_transform_complete == FALSE

\* mark_initial_transform_complete called by the pipeline's user
MarkInitialTransformComplete ==
    /\ pc \in {"idle", "done"}
    /\ is_initial_transform' = mark_initial_transform_complete
    /\ result' = NoResult
    /\ BetweenCalls
    /\ UNCHANGED <<stages, is_preload_complete, scd_stages, custom_calendar, calls,
                   recVars, exprVars>>

StagesAfterStatusKeep(status, ss) == ss

\* _execute_preload_stages, lines 96-100: a False status empties the stage list
StagesAfterStatus(status, ss) == IF status = "false" THEN <<>> ELSE ss

LacksOutputItemNever(s) == FALSE

\* _execute_preload_stages, lines 91-95: reading p.output_item raises
\* AttributeError when the stage has no such attribute
LacksOutputItem(s) == s.output_item = "absent"

SkipsPreloadNever(flag) == FALSE

\* _execute_preload_stages, line 84: a preload stage is passed over when the
\* session's _is_preload_complete is set
SkipsPreload(flag) == flag

\* _execute_preload_stages, lines 83-100: one iteration of the loop over the
\* preload stages; status is what p.execute returns, or "raise"
PreloadStage(status) ==
    /\ pc = "preload"
    /\ idx <= Len(preload_stages)
    /\ LET p == preload_stages[idx]
           ran == <<Ev("execute_preload", p, status, "na")>>
           traced == ran \o <<Ev("trace", p, "preload_completed", "na")>>
                     \o (IF call.register THEN <<Ev("register", p, "preload", "na")>>
                         ELSE <<>>)
       IN IF SkipsPreload(is_preload_complete)
          THEN /\ status = "true"
               /\ idx' = idx + 1
               /\ UNCHANGED <<pc, events, result, run_stages, preload_item_names>>
          ELSE IF status = "raise"
          THEN /\ events' = events \o ran
               /\ result' = Raised("Exception", "preload")
               /\ pc' = "done"
               /\ UNCHANGED <<idx, run_stages, preload_item_names>>
          ELSE IF LacksOutputItem(stages[p])
          THEN /\ events' = events \o traced
               /\ result' = Raised("AttributeError", "preload")
               /\ pc' = "done"
               /\ UNCHANGED <<idx, run_stages, preload_item_names>>
          ELSE /\ preload_item_names' = Append(preload_item_names, PreloadItem(p))
               /\ run_stages' = StagesAfterStatus(status, run_stages)
               /\ events' = events \o traced
                            \o (IF status = "false"
                                THEN <<Ev("trace", p, "preload_status_false", "na")>>
                                ELSE <<>>)
               /\ idx' = IF status = "false" THEN Len(preload_stages) + 1 ELSE idx + 1
               /\ UNCHANGED <<pc, result>>
    /\ UNCHANGED <<stages, sessionVars, calls, call, df, preload_stages, bucketVars, recVars, exprVars>>

PreloadFlagAfterKeep(flag) == flag

\* _execute_preload_stages, line 101
PreloadFlagAfter(flag) == TRUE

\* _execute_preload_stages, lines 101-102, and execute, lines 233-237: the preload
\* phase returns, and the dataset is fetched from the entity type when none was given
PreloadReturn(f) ==
    /\ pc = "preload"
    /\ idx > Len(preload_stages)
    /\ is_preload_complete' = PreloadFlagAfter(is_preload_complete)
    /\ IF df.none
       THEN /\ df' = f
            /\ events' = Append(events, Ev("get_data", 0, "entity", "na"))
       ELSE /\ f = FrameA
            /\ UNCHANGED <<df, events>>
    /\ pc' = "sources"
    /\ idx' = 1
    /\ UNCHANGED <<stages, is_initial_transform, scd_stages, custom_calendar, calls, call,
                   run_stages, preload_stages, preload_item_names, bucketVars, result,
                   recVars, exprVars>>

ExecutedInLoopWithOuter(s) == Bucket(s) \in {"replace", "outer"}

\* _execute_data_sources, line 143: the stages executed inside the routing loop
ExecutedInLoop(s) == Bucket(s) = "replace"

DfAfterReplaceKeepOld(old, new) == old

\* _execute_data_sources, line 144: df = self._execute_stage(...)
DfAfterReplace(old, new) == new

\* the locals of _execute_data_sources and the session registrations the routing
\* loop works on, and the error that left it (exc)
Routing(scd, cal, secondary, lookup, remaining, d, evs, exc) ==
    [scd |-> scd, cal |-> cal, secondary |-> secondary, lookup |-> lookup,
     remaining |-> remaining, df |-> d, events |-> evs, exc |-> exc]

\* no behaviour is drawn for a stage the routing loop does not execute
NotExecuted == Beh("absent", Outcome("ok", {}), Outcome("na", {}), "same", Outcome("run", {}))

\* _execute_data_sources, lines 121-165: what one iteration of the routing loop
\* does with stage s at position pos, r being the outcome of executing it. The
\* stage is registered with the session where it carries a lookup marker, then a
\* replace source is executed on the spot and any other stage is put in its list.
RouteOutcome(acc, s, pos, r) ==
    LET scd == IF RegistersScd(s) THEN Append(acc.scd, s) ELSE acc.scd
        cal == IF RegistersCalendar(s) THEN <<s>> ELSE acc.cal
    IN IF ExecutedInLoop(s)
       THEN IF r.exc # "none"
            THEN [acc EXCEPT !.scd = scd, !.cal = cal, !.events = @ \o r.events,
                             !.exc = r.exc]
            ELSE [acc EXCEPT !.scd = scd, !.cal = cal,
                             !.df = DfAfterReplace(acc.df, r.df),
                             !.events = @ \o r.events
                                          \o <<EvDf("trace", pos, "replaced", "na",
                                                    DfAfterReplace(acc.df, r.df))>>]
       ELSE [acc EXCEPT !.scd = scd, !.cal = cal,
                        !.secondary = IF Bucket(s) = "outer" THEN Append(@, pos) ELSE @,
                        !.lookup = IF Bucket(s) = "lookup" THEN Append(@, pos) ELSE @,
                        !.remaining = IF Bucket(s) = "ordinary" THEN Append(@, pos) ELSE @]

\* _execute_data_sources, lines 121-165: one iteration of the routing loop, for the
\* stage at position pos of the stage list ss
RouteStep(ss, acc, pos, register, dropna, b) ==
    RouteOutcome(acc, ss[pos], pos,
                 execute_stage(pos, ss[pos], acc.df, register, dropna, TRUE, b))

\* _execute_data_sources, lines 121-165: one iteration of the routing loop
DataSourceStage(b) ==
    /\ pc = "sources"
    /\ idx <= Len(run_stages)
    /\ b \in (IF ExecutedInLoop(stages[run_stages[idx]])
              THEN Behaviours(stages[run_stages[idx]]) ELSE {NotExecuted})
    /\ \E r \in {RouteStep(stages,
                            Routing(scd_stages, custom_calendar, secondary_sources,
                                    special_lookup_stages, remaining_stages, df, events,
                                    "none"),
                            run_stages[idx], call.register, call.dropna, b)} :
          /\ scd_stages' = r.scd
          /\ custom_calendar' = r.cal
          /\ secondary_sources' = r.secondary
          /\ special_lookup_stages' = r.lookup
          /\ remaining_stages' = r.remaining
          /\ df' = r.df
          /\ events' = r.events
          /\ IF r.exc # "none"
             THEN /\ result' = Raised(r.exc, "sources")
                  /\ pc' = "done"
                  /\ UNCHANGED idx
             ELSE /\ idx' = idx + 1
                  /\ UNCHANGED <<pc, result>>
    /\ UNCHANGED <<stages, is_preload_complete, is_initial_transform, calls, call,
                   run_stages, preload_stages, preload_item_names, replace_count, recVars, exprVars>>

\* _execute_data_sources, lines 166-167: after the routing loop, the warning about
\* several replace sources is logged when replace_count exceeds one
ReplaceCountCheck ==
    /\ pc = "sources"
    /\ idx > Len(run_stages)
    /\ events' = IF replace_count > 1
                 THEN Append(events, Ev("warning", 0, "multiple_replace", "na"))
                 ELSE events
    /\ pc' = "secondary"
    /\ idx' = 1
    /\ UNCHANGED <<stages, sessionVars, calls, call, df, run_stages, preload_stages,
                   preload_item_names, bucketVars, result, recVars, exprVars>>

\* _execute_data_sources, lines 170-182: one secondary (outer) source is executed
SecondaryStage(b) ==
    /\ pc = "secondary"
    /\ idx <= Len(secondary_sources)
    /\ b \in Behaviours(stages[secondary_sources[idx]])
    /\ \E r \in {execute_stage(secondary_sources[idx], stages[secondary_sources[idx]], df,
                                call.register, call.dropna, TRUE, b)} :
          /\ events' = events \o <<Ev("trace", secondary_sources[idx], "secondary", "na")>>
                               \o r.events
          /\ IF r.exc # "none"
             THEN /\ result' = Raised(r.exc, "secondary")
                  /\ pc' = "done"
                  /\ UNCHANGED <<df, idx>>
             ELSE /\ df' = r.df
                  /\ idx' = idx + 1
                  /\ UNCHANGED <<pc, result>>
    /\ UNCHANGED <<stages, sessionVars, calls, call, run_stages, preload_stages,
                   preload_item_names, bucketVars, recVars, exprVars>>

LookupsEnabledIgnoreEmpty(d, lookups) == Len(lookups) > 0

\* _execute_data_sources, line 185: not df.empty and len(special_lookup_stages) > 0
LookupsEnabled(d, lookups) == ~Empty(d) /\ Len(lookups) > 0

\* _execute_data_sources, line 185: the test that guards the whole lookup loop is
\* evaluated once, on the dataset left by the primary and secondary sources
LookupGate ==
    /\ pc = "secondary"
    /\ idx > Len(secondary_sources)
    /\ call' = [call EXCEPT !.lookups = LookupsEnabled(df, special_lookup_stages)]
    /\ pc' = "lookup"
    /\ idx' = 1
    /\ UNCHANGED <<stages, sessionVars, calls, df, run_stages, preload_stages,
                   preload_item_names, bucketVars, events, result, recVars, exprVars>>

\* _execute_data_sources, lines 186-197: one special lookup stage is executed
LookupStage(b) ==
    /\ pc = "lookup"
    /\ call.lookups
    /\ idx <= Len(special_lookup_stages)
    /\ b \in Behaviours(stages[special_lookup_stages[idx]])
    /\ \E r \in {execute_stage(special_lookup_stages[idx], stages[special_lookup_stages[idx]], df,
                                call.register, call.dropna, TRUE, b)} :
          /\ events' = events \o <<Ev("trace", special_lookup_stages[idx], "lookup", "na")>>
                               \o r.events
          /\ IF r.exc # "none"
             THEN /\ result' = Raised(r.exc, "lookup")
                  /\ pc' = "done"
                  /\ UNCHANGED <<df, idx>>
             ELSE /\ df' = r.df
                  /\ idx' = idx + 1
                  /\ UNCHANGED <<pc, result>>
    /\ UNCHANGED <<stages, sessionVars, calls, call, run_stages, preload_stages,
                   preload_item_names, bucketVars, recVars, exprVars>>

\* _execute_data_sources, line 199, and execute, line 241: source resolution
\* returns the dataset and the remaining stages
SourcesReturn ==
    /\ pc = "lookup"
    /\ ~call.lookups \/ idx > Len(special_lookup_stages)
    /\ run_stages' = remaining_stages
    /\ pc' = "post"
    /\ idx' = 1
    /\ UNCHANGED <<stages, sessionVars, calls, call, df, preload_stages,
                   preload_item_names, bucketVars, events, result, recVars, exprVars>>

\* execute, lines 266-277: the columns considered when dropping all-null rows
NullSubset(d) ==
    {d.cols[i].name : i \in 1..Len(d.cols)} \ (SystemColumns \cup CustomExcludeCols)

\* execute, lines 261-284: cleanup of the source dataset before the stage loop
PreparedFrame(d, dropna, dropnull, names) ==
    LET a == IF dropna THEN DropNa(ReplaceInf(d)) ELSE d
        c == IF dropnull THEN DropNaAll(a, NullSubset(a)) ELSE a
    IN AddPreloadCols(c, names, 1)

\* execute, lines 233 and 255-284: a missing dataset is an error; otherwise the
\* dataset is cleaned and gets one dummy column per preloaded item, the caller's
\* names first and then those of the preload phase
PostSource ==
    /\ pc = "post"
    /\ IF df.none
       THEN /\ result' = Raised("ValueError", "post")
            /\ events' = Append(events, Ev("error", 0, "no_source_dataframe", "na"))
            /\ pc' = "done"
            /\ UNCHANGED <<df, idx>>
       ELSE /\ df' = PreparedFrame(df, call.dropna, call.drop_all_null_rows,
                                   call.names \o preload_item_names)
            /\ pc' = "loop"
            /\ idx' = 1
            /\ UNCHANGED <<events, result>>
    /\ UNCHANGED <<stages, sessionVars, calls, call, run_stages, preload_stages,
                   preload_item_names, bucketVars, recVars, exprVars>>

LoopBreaksNever(d) == FALSE

\* execute, lines 286-288: the loop over the stages stops at the first stage that
\* finds the accumulated dataset empty
LoopBreaks(d) == Empty(d)

\* execute, lines 285-298: one iteration of the loop over the stages left for the
\* stage runner
OrdinaryStage(b) ==
    /\ pc = "loop"
    /\ idx <= Len(run_stages)
    /\ ~LoopBreaks(df)
    /\ b \in Behaviours(stages[run_stages[idx]])
    /\ \E r \in {execute_stage(run_stages[idx], stages[run_stages[idx]], df,
                                call.register, call.dropna, TRUE, b)} :
          /\ events' = events \o r.events
          /\ IF r.exc # "none"
             THEN /\ result' = Raised(r.exc, "loop")
                  /\ pc' = "done"
                  /\ UNCHANGED <<df, idx>>
             ELSE /\ df' = r.df
                  /\ idx' = idx + 1
                  /\ UNCHANGED <<pc, result>>
    /\ UNCHANGED <<stages, sessionVars, calls, call, run_stages, preload_stages,
                   preload_item_names, bucketVars, recVars, exprVars>>

\* execute, lines 286-288 and 299-308: the loop ends (or breaks on an empty
\* dataset); an initial-transform run writes back unmatched members, which may fail
\* and is then reported with abort_on_fail = False, and marks the initial transform
\* complete; the dataset is returned
Finish(wb) ==
    /\ pc = "loop"
    /\ idx > Len(run_stages) \/ LoopBreaks(df)
    /\ LET brk == IF idx <= Len(run_stages)
                  THEN <<Ev("info", 0, "no_data_exit", "na")>> ELSE <<>>
           wr == IF ~call.initial THEN <<>>
                 ELSE <<Ev("write_unmatched_members", 0, wb, "na")>>
                      \o (IF wb = "raise"
                          THEN <<Ev("trace", 0, "error:unmatched_members", "na"),
                                 Ev("raise_error", 0, "Exception", AbortStr(FALSE))>>
                          ELSE <<>>)
       IN /\ call.initial \/ wb = "ok"
          /\ events' = events \o brk \o wr
          /\ is_initial_transform' =
                IF call.initial THEN mark_initial_transform_complete
                ELSE is_initial_transform
          /\ result' = Returned(df)
          /\ pc' = "done"
    /\ UNCHANGED <<stages, is_preload_complete, scd_stages, custom_calendar, calls, call,
                   df, run_stages, preload_stages, preload_item_names, bucketVars, idx,
                   recVars, exprVars>>

\* a step of a session whose user leaves the session flags to execute()
NextExecute ==
    \/ \E a \in CallInputs : ExecuteCall(a)
    \/ \E s \in AddStageInputs : \E has_setter \in BOOLEAN : add_stage(s, has_setter)
    \/ add_expression
    \/ \E arg \in SetStagesInputs : set_stages(arg)
    \/ \E status \in {"true", "false", "raise"} : PreloadStage(status)
    \/ \E f \in EntityFrames : PreloadReturn(f)
    \/ \E b \in OrdinaryBehaviours \cup UNION {SourceBehaviours(k) :
                  k \in {"replace", "outer", "lookup"}} \cup {NotExecuted} :
          \/ DataSourceStage(b)
          \/ SecondaryStage(b)
          \/ LookupStage(b)
          \/ OrdinaryStage(b)
    \/ ReplaceCountCheck
    \/ LookupGate
    \/ SourcesReturn
    \/ PostSource
    \/ \E wb \in {"ok", "raise"} : Finish(wb)

Next ==
    \/ NextExecute
    \/ MarkInitialTransformComplete

Spec == Init /\ [][Next]_vars

\* the sessions in which only execute() touches the session flags
SpecExecute == Init /\ [][NextExecute]_vars

\* ------------------------------------------------------------------ classification alone
\* Stage lists over every combination of role markers, to exercise the priority
\* of the routing rules on stages that carry several markers at once.
ClassifyUniverse ==
    {MkStage(pre, src[1], src[2], scd, cal, "absent", "present") :
        pre \in {"absent", "true"},
        src \in {<<"absent", "absent">>, <<"true", "replace">>, <<"true", "outer">>,
                 <<"true", "absent">>, <<"false", "replace">>},
        scd \in {"absent", "false", "true"},
        cal \in {"absent", "true"}}

InitClassify ==
    /\ stages \in SeqsUpTo(ClassifyUniverse, MaxClassifyLen)
    /\ is_preload_complete = FALSE
    /\ is_initial_transform = TRUE
    /\ scd_stages = <<>>
    /\ custom_calendar = <<>>
    /\ calls = 0
    /\ pc = "classify"
    /\ call = NoCall
    /\ df = NoDf
    /\ run_stages = <<>>
    /\ preload_stages = <<>>
    /\ preload_item_names = <<>>
    /\ secondary_sources = <<>>
    /\ special_lookup_stages = <<>>
    /\ remaining_stages = <<>>
    /\ replace_count = 0
    /\ idx = 0
    /\ events = <<>>
    /\ result = NoResult
    /\ rec_items = <<>>
    /\ rec_df = NoDf
    /\ rec_out = NoOutcome
    /\ pexpr = NoExpr
    /\ pexpr_out = NoResult

\* what a replace source does when the routing is run on its own
ClassifyBehaviours ==
    {Beh("absent", Outcome("ok", {}), Outcome("na", {}), "frame_a", Outcome("run", {})),
     Beh("absent", CHOOSE c \in ErrorClasses : c.name = "ValueError", Outcome("na", {}),
         "same", Outcome("run", {}))}

RECURSIVE RouteLoop(_, _, _, _, _)
\* _execute_data_sources, lines 117-165: the routing loop over the positions todo of
\* the stage list ss, from the i-th on; an error of a replace source leaves the loop
RouteLoop(ss, todo, i, acc, b) ==
    IF i > Len(todo) \/ acc.exc # "none" THEN acc
    ELSE RouteLoop(ss, todo, i + 1, RouteStep(ss, acc, todo[i], FALSE, FALSE, b), b)

\* _execute_preload_stages, line 80, followed by _execute_data_sources, lines
\* 117-165, on the stages it leaves and the dataset d: the stages are registered
\* and routed and the replace sources executed, each behaving as b
ClassifyStages(d, b) ==
    /\ pc = "classify"
    /\ \E e \in {ExtractPreloadStages(stages)} :
       \E r \in {RouteLoop(stages, e.stages, 1,
                            Routing(scd_stages, custom_calendar, <<>>, <<>>, <<>>, d, <<>>,
                                    "none"), b)} :
          /\ b \in (IF \E i \in 1..Len(e.stages) : ExecutedInLoop(stages[e.stages[i]])
                    THEN ClassifyBehaviours ELSE {NotExecuted})
          /\ preload_stages' = e.extracted
          /\ run_stages' = e.stages
          /\ scd_stages' = r.scd
          /\ custom_calendar' = r.cal
          /\ secondary_sources' = r.secondary
          /\ special_lookup_stages' = r.lookup
          /\ remaining_stages' = r.remaining
          /\ df' = r.df
          /\ events' = r.events
          /\ result' = IF r.exc # "none" THEN Raised(r.exc, "sources") ELSE NoResult
    /\ pc' = "classified"
    /\ UNCHANGED <<stages, is_preload_complete, is_initial_transform, calls, call,
                   preload_item_names, replace_count, idx, recVars, exprVars>>

NextClassify == \E b \in ClassifyBehaviours \cup {NotExecuted} : ClassifyStages(FrameA, b)

SpecClassify == InitClassify /\ [][NextClassify]_vars

\* ------------------------------------------------------------------ reconciliation alone
Z == <<"item", 3>>

\* the rows of the one- and two-column datasets: one row of values, rows with a
\* missing or an infinite cell, or no row
TypeRows1 == {<< <<"v">> >>, << <<"nan">> >>, << <<"inf">>, <<"v">> >>, <<>>}
TypeRows2 ==
    {<< <<"v", "v">> >>, << <<"nan", "v">> >>, << <<"nan", "nan">> >>,
     << <<"inf", "v">>, <<"nan", "v">> >>, <<>>}

\* an int64 or bool column holds no missing and no infinite value, a datetime64
\* column no infinite one
CellsFit(d) ==
    \A p \in 1..Len(d.cols) :
        /\ d.cols[p].dtype \in {"int64", "bool"} => CellsOf(d, p) \subseteq {"v"}
        /\ d.cols[p].dtype = "datetime64[ns]" => CellsOf(d, p) \subseteq {"v", "nan"}

\* datasets with up to three declared-item columns of any runtime dtype, and None
TypeFrames ==
    {NoDf}
    \cup {f \in {Frame(<<Col(X, t)>>, rs) : t \in DTypes, rs \in TypeRows1} : CellsFit(f)}
    \cup {f \in {Frame(<<Col(X, t[1]), Col(Y, t[2])>>, rs) :
                    t \in DTypes \X DTypes, rs \in TypeRows2} : CellsFit(f)}
    \cup {Frame(<<Col(X, t[1]), Col(Y, t[2]), Col(Z, t[3])>>, << <<"v", "v", "v">> >>) :
            t \in DTypes \X DTypes \X DTypes}

ItemUniverse == {Item(n, c) : n \in {X, Y, Z}, c \in ColumnTypes}

\* declared items have distinct names
DistinctNames(items) ==
    \A i, j \in 1..Len(items) : i # j => items[i].name # items[j].name

InitTypes ==
    /\ stages = <<>>
    /\ is_preload_complete = FALSE
    /\ is_initial_transform = TRUE
    /\ scd_stages = <<>>
    /\ custom_calendar = <<>>
    /\ calls = 0
    /\ pc = "reconcile"
    /\ call = NoCall
    /\ df \in TypeFrames
    /\ run_stages = <<>>
    /\ preload_stages = <<>>
    /\ preload_item_names = <<>>
    /\ secondary_sources = <<>>
    /\ special_lookup_stages = <<>>
    /\ remaining_stages = <<>>
    /\ replace_count = 0
    /\ idx = 0
    /\ events = <<>>
    /\ result = NoResult
    /\ rec_items \in {s \in SeqsUpTo(ItemUniverse, MaxItems) : DistinctNames(s)}
    /\ rec_df = df
    /\ rec_out = NoOutcome
    /\ pexpr = NoExpr
    /\ pexpr_out = NoResult

\* check_data_items_type(df, items), lines 569-648, called on df (kept as the
\* argument's value on entry) and rec_items under the pandas release lib: rec_df is
\* the dataset after the call, rec_out tells whether it raised, which triples the
\* error message lists and which release was at work
CheckTypes(lib) ==
    /\ pc = "reconcile"
    /\ \E r \in {check_data_items_type(df, rec_items, lib)} :
          /\ rec_df' = r.df
          /\ rec_out' = [kind |-> IF r.raised THEN "raised" ELSE "returned",
                         invalid |-> r.invalid, release |-> lib]
    /\ pc' = "reconciled"
    /\ UNCHANGED <<stages, sessionVars, calls, call, df, run_stages, preload_stages,
                   preload_item_names, bucketVars, idx, events, result, rec_items, exprVars>>

NextTypes == \E lib \in PandasReleases : CheckTypes(lib)

SpecTypes == InitTypes /\ [][NextTypes]_vars

\* ------------------------------------------------------------------ PipelineExpression
\* A text (the expression, a column name) is the sequence of its characters. The
\* datasets an expression works on have integer columns.
MaxOperands == 2

\* the characters that \w matches, among the letters the expressions use
WordChars == {"a", "b", "c", "d", "f", "z"}

QuoteChars == {"\"", "'"}

RECURSIVE WordEnd(_, _)
\* the position after the longest run of word characters that starts at i
WordEnd(s, i) == IF i <= Len(s) /\ s[i] \in WordChars THEN WordEnd(s, i + 1) ELSE i

RECURSIVE NextPos(_, _, _)
\* the first position from i on that holds the character ch, Len(s) + 1 when none
NextPos(s, i, ch) ==
    IF i > Len(s) THEN Len(s) + 1
    ELSE IF s[i] = ch THEN i ELSE NextPos(s, i + 1, ch)

\* execute, line 665: '${' in self.expression
HasPlaceholderMark(s) == \E i \in 1..(Len(s) - 1) : s[i] = "$" /\ s[i + 1] = "{"

\* whether the pattern \$\{(\w+)\} matches at position i
MatchesPlaceholder(s, i) ==
    /\ i + 1 <= Len(s)
    /\ s[i] = "$" /\ s[i + 1] = "{"
    /\ WordEnd(s, i + 2) > i + 2
    /\ WordEnd(s, i + 2) <= Len(s)
    /\ s[WordEnd(s, i + 2)] = "}"

RECURSIVE SubPlaceholders(_, _)
\* execute, line 666: re.sub(r"\$\{(\w+)\}", r"df['\1']", expression), from i on
SubPlaceholders(s, i) ==
    IF i > Len(s) THEN <<>>
    ELSE IF MatchesPlaceholder(s, i)
    THEN <<"d", "f", "[", "'">> \o SubSeq(s, i + 2, WordEnd(s, i + 2) - 1) \o <<"'", "]">>
         \o SubPlaceholders(s, WordEnd(s, i + 2) + 1)
    ELSE <<s[i]>> \o SubPlaceholders(s, i + 1)

\* execute, lines 665-668: the text handed to eval
RewrittenExpression(s) == IF HasPlaceholderMark(s) THEN SubPlaceholders(s, 1) ELSE s

RECURSIVE FindQuoted(_, _, _)
\* infer_inputs, lines 684-685: re.findall of q([^q]*)q for the quote character q,
\* from i on: the texts between an opening quote and the next quote
FindQuoted(s, i, q) ==
    LET o == NextPos(s, i, q)
        c == NextPos(s, o + 1, q)
    IN IF o > Len(s) \/ c > Len(s) THEN <<>>
       ELSE <<SubSeq(s, o + 1, c - 1)>> \o FindQuoted(s, c + 1, q)

\* infer_inputs, lines 682-686: the quoted texts of the expression as written,
\* double-quoted ones first, that are columns of the dataset
InferInputs(s, d) ==
    LET possible_items == FindQuoted(s, 1, "\"") \o FindQuoted(s, 1, "'")
    IN SelectSeq(possible_items, LAMBDA x : x \in Range(ColNames(d)))

\* One operand of the text handed to eval, read at position i: a string literal, a
\* subscript df['w'] or df["w"], or a name. ok is false where Python's parser
\* rejects the text. These are the operand shapes the expressions of the inputs
\* have after rewriting.
NoOperand == [ok |-> FALSE, kind |-> "none", word |-> <<>>, next |-> 0]

OperandAt(s, i) ==
    IF i > Len(s) THEN NoOperand
    ELSE IF s[i] \in QuoteChars
    THEN LET c == NextPos(s, i + 1, s[i])
         IN IF c > Len(s) THEN NoOperand
            ELSE [ok |-> TRUE, kind |-> "str", word |-> SubSeq(s, i + 1, c - 1),
                  next |-> c + 1]
    ELSE IF s[i] \in WordChars
    THEN LET e == WordEnd(s, i)
             w == SubSeq(s, i, e - 1)
             q == NextPos(s, e + 2, s[e + 1])
         IN IF w = <<"d", "f">> /\ e <= Len(s) /\ s[e] = "["
            THEN IF e + 1 <= Len(s) /\ s[e + 1] \in QuoteChars
                    /\ q + 1 <= Len(s) /\ s[q + 1] = "]"
                 THEN [ok |-> TRUE, kind |-> "col", word |-> SubSeq(s, e + 2, q - 1),
                       next |-> q + 2]
                 ELSE NoOperand
            ELSE [ok |-> TRUE, kind |-> "name", word |-> w, next |-> e]
    ELSE NoOperand

RECURSIVE ParseSum(_, _, _)
\* the operands of operand + operand + ..., or ok false on a syntax error
ParseSum(s, i, acc) ==
    LET o == OperandAt(s, i)
    IN IF ~o.ok THEN [ok |-> FALSE, operands |-> <<>>]
       ELSE IF o.next > Len(s) THEN [ok |-> TRUE, operands |-> Append(acc, o)]
       ELSE IF s[o.next] = "+" THEN ParseSum(s, o.next + 1, Append(acc, o))
       ELSE [ok |-> FALSE, operands |-> <<>>]

\* column w of dataset d as a sequence of cells
ColCells(d, w) == [r \in 1..Len(d.rows) |-> d.rows[r][ColPos(d, w)]]

\* the value of one operand in the scope of execute, where df (line 663) is the
\* only local the expressions refer to: the name df is the dataset itself, any
\* other name is unknown; exc names the error raised
OperandValue(o, d) ==
    CASE o.kind = "str" -> [exc |-> "none", kind |-> "str", val |-> o.word]
      [] o.kind = "col" ->
            IF HasCol(d, o.word)
            THEN [exc |-> "none", kind |-> "col", val |-> ColCells(d, o.word)]
            ELSE [exc |-> "KeyError", kind |-> "none", val |-> <<>>]
      [] o.kind = "name" /\ o.word = <<"d", "f">> -> [exc |-> "none", kind |-> "frame", val |-> d]
      [] OTHER -> [exc |-> "NameError", kind |-> "none", val |-> <<>>]

\* x + y: two columns add element by element and so do two copies of the dataset,
\* two texts concatenate, and a text adds to nothing else. A column and a dataset
\* are aligned on their labels (the row labels of the column, the column names of
\* the dataset): the sum is a dataset (kind "aligned") with one column for every
\* label of either side and the rows of the dataset, and as no row label is a
\* column name every cell of it is missing. Such a sum aligns again with whatever
\* is added to it.
PlusValue(x, y) ==
    LET Labels(z) ==
            CASE z.kind = "col" -> {<<"row", r>> : r \in 1..Len(z.val)}
              [] z.kind = "frame" -> {z.val.cols[c].name : c \in 1..Len(z.val.cols)}
              [] OTHER -> z.val.labels
        NRows(z) == IF z.kind = "frame" THEN Len(z.val.rows) ELSE z.val.nrows
    IN IF x.kind = "col" /\ y.kind = "col"
       THEN [exc |-> "none", kind |-> "col",
             val |-> [r \in 1..Len(x.val) |-> x.val[r] + y.val[r]]]
       ELSE IF x.kind = "str" /\ y.kind = "str"
       THEN [exc |-> "none", kind |-> "str", val |-> x.val \o y.val]
       ELSE IF x.kind = "frame" /\ y.kind = "frame"
       THEN [exc |-> "none", kind |-> "frame",
             val |-> [x.val EXCEPT !.rows = [r \in 1..Len(x.val.rows) |->
                         [c \in 1..Len(x.val.cols) |-> x.val.rows[r][c] + y.val.rows[r][c]]]]]
       ELSE IF x.kind = "str" \/ y.kind = "str"
       THEN [exc |-> "TypeError", kind |-> "none", val |-> <<>>]
       ELSE [exc |-> "none", kind |-> "aligned",
             val |-> [labels |-> Labels(x) \cup Labels(y),
                      nrows |-> IF x.kind # "col" THEN NRows(x) ELSE NRows(y)]]

RECURSIVE EvalSum(_, _, _, _)
\* left to right: the next operand is evaluated, then added to what came before
EvalSum(ops, i, acc, d) ==
    IF i > Len(ops) THEN acc
    ELSE LET v == OperandValue(ops[i], d)
         IN IF v.exc # "none" THEN v
            ELSE IF PlusValue(acc, v).exc # "none" THEN PlusValue(acc, v)
            ELSE EvalSum(ops, i + 1, PlusValue(acc, v), d)

\* execute, line 670: eval(expr)
Eval(s, d) ==
    LET p == ParseSum(s, 1, <<>>)
        first == OperandValue(p.operands[1], d)
    IN IF ~p.ok THEN [exc |-> "SyntaxError", kind |-> "none", val |-> <<>>]
       ELSE IF first.exc # "none" THEN first
       ELSE EvalSum(p.operands, 2, first, d)

\* execute, line 670: the error of df[self.name] = value: a dataset is stored as
\* one column only when it has exactly one
SetColError(v) ==
    IF v.kind = "frame" /\ Len(v.val.cols) # 1 THEN "ValueError"
    ELSE IF v.kind = "aligned" /\ Cardinality(v.val.labels) # 1 THEN "ValueError"
    ELSE "none"

\* execute, line 670: df[self.name] = value; a column (or a dataset of one column)
\* is stored row by row, a text is broadcast to every row
SetCol(d, w, v) ==
    LET cell(r) == IF v.kind = "col" THEN v.val[r]
                   ELSE IF v.kind = "frame" THEN v.val.rows[r][1]
                   ELSE IF v.kind = "aligned" THEN "nan"
                   ELSE v.val
        dtype == IF v.kind = "str" THEN "object"
                 ELSE IF v.kind = "aligned" THEN "float64"
                 ELSE "int64"
    IN IF HasCol(d, w)
       THEN [d EXCEPT !.cols[ColPos(d, w)].dtype = dtype,
                      !.rows = [r \in 1..Len(d.rows) |->
                                   [d.rows[r] EXCEPT ![ColPos(d, w)] = cell(r)]]]
       ELSE [d EXCEPT !.cols = Append(@, Col(w, dtype)),
                      !.rows = [r \in 1..Len(d.rows) |-> Append(d.rows[r], cell(r))]]

\* the texts of the operand shapes
Placeholder(w) == <<"$", "{">> \o w \o <<"}">>
OpenPlaceholder(w) == <<"$", "{">> \o w
Subscript(q, w) == <<"d", "f", "[", q>> \o w \o <<q, "]">>
Quoted(q, w) == <<q>> \o w \o <<q>>

A == <<"a">>
B == <<"b">>
C == <<"c">>
Missing == <<"z">>

Operands ==
    UNION {{Placeholder(w), OpenPlaceholder(w), Subscript("'", w), Subscript("\"", w),
            Quoted("'", w), Quoted("\"", w), w} : w \in {A, B, Missing}}
    \cup {<<"d", "f">>}

RECURSIVE JoinPlus(_, _)
JoinPlus(ops, i) ==
    IF i > Len(ops) THEN <<>>
    ELSE (IF i > 1 THEN <<"+">> ELSE <<>>) \o ops[i] \o JoinPlus(ops, i + 1)

\* the expressions: one to MaxOperands operands joined by +
Expressions == {JoinPlus(ops, 1) : ops \in SeqsUpTo(Operands, MaxOperands) \ {<<>>}}

\* a = [1, 2], b = [3, 4], and the same dataset without column b
FrameAB == Frame(<<Col(A, "int64"), Col(B, "int64")>>, << <<1, 3>>, <<2, 4>> >>)
FrameOnlyA == Frame(<<Col(A, "int64")>>, << <<1>>, <<2>> >>)

InitExpr ==
    /\ stages = <<>>
    /\ is_preload_complete = FALSE
    /\ is_initial_transform = TRUE
    /\ scd_stages = <<>>
    /\ custom_calendar = <<>>
    /\ calls = 0
    /\ pc = "expression"
    /\ call = NoCall
    /\ df \in {FrameAB, FrameOnlyA}
    /\ run_stages = <<>>
    /\ preload_stages = <<>>
    /\ preload_item_names = <<>>
    /\ secondary_sources = <<>>
    /\ special_lookup_stages = <<>>
    /\ remaining_stages = <<>>
    /\ replace_count = 0
    /\ idx = 0
    /\ events = <<>>
    /\ result = NoResult
    /\ rec_items = <<>>
    /\ rec_df = NoDf
    /\ rec_out = NoOutcome
    /\ pexpr \in {[expression |-> e, name |-> n, input_items |-> <<>>] :
                    e \in Expressions, n \in {C, A}}
    /\ pexpr_out = NoResult

\* PipelineExpression.execute(df), lines 662-677, on the dataset df: the inputs
\* are inferred, the placeholders rewritten, the text evaluated and the value
\* stored as column self.name of a copy of df, which is traced and returned; a
\* syntax error is raised again as SyntaxError, any other error of the evaluation
\* or of the assignment leaves as it is
ExecuteExpression ==
    /\ pc = "expression"
    /\ LET expr == RewrittenExpression(pexpr.expression)
           v == Eval(expr, df)
           exc == IF v.exc # "none" THEN v.exc ELSE SetColError(v)
           out == SetCol(df, pexpr.name, v)
       IN /\ pexpr' = [pexpr EXCEPT !.input_items = InferInputs(pexpr.expression, df)]
          /\ IF exc # "none"
             THEN /\ pexpr_out' = Raised(exc, "expression")
                  /\ UNCHANGED events
             ELSE /\ pexpr_out' = Returned(out)
                  /\ events' = Append(events, EvDf("trace", 0, "evaluated", "na", out))
    /\ pc' = "evaluated"
    /\ UNCHANGED <<stages, sessionVars, calls, call, df, run_stages, preload_stages,
                   preload_item_names, bucketVars, idx, result, recVars>>

\* PipelineExpression.infer_inputs(d), lines 681-686, called on its own on a
\* dataset d: the input items are set and nothing else happens. Called before
\* execute, the expression is still to be evaluated; called after it, the items are
\* no longer the ones execute inferred (pc "inferred").
infer_inputs(d) ==
    /\ pc \in {"expression", "evaluated", "inferred"}
    /\ pexpr' = [pexpr EXCEPT !.input_items = InferInputs(pexpr.expression, d)]
    /\ pc' = IF pc = "expression" THEN "expression" ELSE "inferred"
    /\ UNCHANGED <<stages, sessionVars, calls, call, df, run_stages, preload_stages,
                   preload_item_names, bucketVars, idx, events, result, recVars,
                   pexpr_out>>

NextExpr ==
    \/ ExecuteExpression
    \/ \E d \in {FrameAB, FrameOnlyA} : infer_inputs(d)

SpecExpr == InitExpr /\ [][NextExpr]_vars

\* ------------------------------------------------------------------ properties
\* The role the routing rules give a stage, read off its markers.
MarkedRole(s) ==
    IF s.is_preload = "true" THEN "preload"
    ELSE IF s.is_data_source = "true" /\ s.merge_method = "replace" THEN "replace"
    ELSE IF s.is_data_source = "true" /\ s.merge_method = "outer" THEN "outer"
    ELSE IF s.is_scd_lookup = "true" \/ s.is_custom_calendar = "true" THEN "lookup"
    ELSE "ordinary"

PhaseRank(s) ==
    CASE MarkedRole(s) = "preload" -> 1
      [] MarkedRole(s) = "replace" -> 2
      [] MarkedRole(s) = "outer" -> 3
      [] MarkedRole(s) = "lookup" -> 4
      [] OTHER -> 5

\* the stages the routing loop executed and replaced the dataset with, in order
ReplacedAt == {i \in DOMAIN events : events[i].ev = "trace" /\ events[i].info = "replaced"}

BucketList(k) ==
    CASE k = "preload" -> preload_stages
      [] k = "replace" ->
            [n \in 1..Cardinality(ReplacedAt) |->
                events[CHOOSE i \in ReplacedAt :
                          Cardinality({j \in ReplacedAt : j < i}) = n - 1].stage]
      [] k = "outer" -> secondary_sources
      [] k = "lookup" -> special_lookup_stages
      [] OTHER -> remaining_stages

BucketNames == {"preload", "replace", "outer", "lookup", "ordinary"}

Occurrences(s, x) == Cardinality({i \in DOMAIN s : s[i] = x})

Increasing(s) == \A i, j \in DOMAIN s : i < j => s[i] < s[j]

IsExec(e) == e.ev \in {"execute_preload", "execute_full", "execute_reduced"}

IsRunnerExec(e) == e.ev \in {"execute_full", "execute_reduced"}

HasEvent(ev, info) == \E i \in DOMAIN events : events[i].ev = ev /\ events[i].info = info

\* C1: classification (preload extraction, then source routing) puts every stage
\* of any stage list in exactly one of the five buckets, the one its markers give
\* by the priority preload > replace > outer > lookup > ordinary, and each bucket
\* lists its stages in the order they have in the pipeline.
C1_ClassificationPartitions ==
    (pc = "classified" /\ result.kind # "raised") =>
        /\ \A pos \in 1..Len(stages) : \A k \in BucketNames :
              Occurrences(BucketList(k), pos) =
                  (IF k = MarkedRole(stages[pos]) THEN 1 ELSE 0)
        /\ \A k \in BucketNames :
              /\ Increasing(BucketList(k))
              /\ Range(BucketList(k)) \subseteq 1..Len(stages)

\* a classified list whose first stage carries both the preload and the replace
\* marker and where two stages share a bucket
C1_Witness ==
    /\ pc = "classified"
    /\ result.kind # "raised"
    /\ Len(stages) = 2
    /\ stages[1].is_preload = "true"
    /\ stages[1].is_data_source = "true" /\ stages[1].merge_method = "replace"
    /\ preload_stages = <<1, 2>>

\* C2: in an initial-transform run the stage executions come in phase order:
\* preload, replace sources, outer sources, lookups, ordinary stages, and the
\* ordinary stages in declared order, whatever the order of the stage list.
C2_PhaseOrder ==
    call.initial =>
        \A i, j \in DOMAIN events :
            (i < j /\ IsExec(events[i]) /\ IsExec(events[j])) =>
                /\ PhaseRank(stages[events[i].stage]) <= PhaseRank(stages[events[j].stage])
                /\ (PhaseRank(stages[events[i].stage]) = 5
                    /\ PhaseRank(stages[events[j].stage]) = 5)
                   => events[i].stage <= events[j].stage

\* a finished initial run that executed a later-listed stage before an earlier one
C2_Witness ==
    /\ pc = "done"
    /\ call.initial
    /\ result.kind = "returned"
    /\ \E i, j \in DOMAIN events :
          /\ i < j /\ IsExec(events[i]) /\ IsExec(events[j])
          /\ events[i].stage > events[j].stage

\* C3: whenever the execute operation of a replace or outer source stage raises
\* during source resolution, the fault handler is called with abort_on_fail = true
\* and the run ends with the error, also for a stage whose own override is false.
C3_SourceFailureForcesAbort ==
    call.initial =>
        \A i \in DOMAIN events :
            (/\ events[i].ev = "raise_error"
             /\ events[i].stage > 0
             /\ events[i].info # "KeyError"
             /\ MarkedRole(stages[events[i].stage]) \in {"replace", "outer"}) =>
                /\ events[i].abort = "true"
                /\ pc = "done"
                /\ result.kind = "raised"

\* C4: once a preload stage has returned a failure status, the stage list left by
\* the preload phase is empty, the stage runner executes no stage in that call, and
\* the call does not end with an error.
C4_PreloadFailureSkipsStages ==
    HasEvent("trace", "preload_status_false") =>
        /\ run_stages = <<>>
        /\ remaining_stages = <<>>
        /\ \A i \in DOMAIN events : ~IsRunnerExec(events[i])
        /\ result.kind # "raised"
        /\ pc = "done" => result.kind = "returned"

\* a call that returned after a failure status although the pipeline has a stage
\* that is not a preload stage
C4_Witness ==
    /\ pc = "done"
    /\ result.kind = "returned"
    /\ HasEvent("trace", "preload_status_false")
    /\ \E pos \in 1..Len(stages) : MarkedRole(stages[pos]) # "preload"

\* C5 as stated: after every run of the preload phase, however it ended (no
\* failure, failure status, raised error, missing output item), the session's
\* preload-complete flag is true.
C5_FlagAfterEveryPreloadRun ==
    (calls >= 1 /\ call.initial /\ pc # "preload") => is_preload_complete

\* C5 amended: after every run of the preload phase that returns to execute (no
\* failure, or a failure status) the preload-complete flag is true; when a preload
\* stage raises or lacks its output item, the error leaves the phase before the
\* flag is set and the flag stays false.
C5_FlagAfterPreloadReturn ==
    (calls >= 1 /\ call.initial /\ pc # "preload") =>
        (is_preload_complete <=> ~(result.kind = "raised" /\ result.at = "preload"))

\* the preload phase returned after a failure status and the flag is set
C5_Witness ==
    /\ call.initial
    /\ pc = "sources"
    /\ HasEvent("trace", "preload_status_false")
    /\ is_preload_complete

\* C6: in a call made when the initial transform is already marked complete, no
\* preload phase and no source resolution runs: no preload stage is executed, no
\* dataset is fetched from the entity type, no stage is routed or executed as a
\* source or lookup, and nothing is registered with the session.
C6_NoInitialWorkAfterComplete ==
    [][(calls' >= 1 /\ ~call'.initial) =>
        /\ pc' \notin {"preload", "sources", "secondary", "lookup"}
        /\ scd_stages' = scd_stages
        /\ custom_calendar' = custom_calendar
        /\ is_preload_complete' = is_preload_complete
        /\ preload_stages' = <<>>
        /\ secondary_sources' = <<>>
        /\ special_lookup_stages' = <<>>
        /\ remaining_stages' = <<>>
        /\ \A i \in DOMAIN events' :
              /\ events'[i].ev \notin {"execute_preload", "get_data"}
              /\ ~(events'[i].ev = "trace"
                   /\ events'[i].info \in {"preload_completed", "replaced", "secondary",
                                          "lookup"})]_vars

\* a later call on a supplied dataset returned after the stage runner executed a
\* stage that carries a preload, source or lookup marker
C6_Witness ==
    /\ pc = "done"
    /\ calls >= 2
    /\ ~call.initial
    /\ result.kind = "returned"
    /\ \E i \in DOMAIN events :
          /\ IsRunnerExec(events[i])
          /\ PhaseRank(stages[events[i].stage]) < 5

\* the trace entries that close the runs of replace sources
ReplaceCompleted ==
    {i \in DOMAIN events :
        /\ events[i].ev = "trace" /\ events[i].info = "completed"
        /\ MarkedRole(stages[events[i].stage]) = "replace"}

LastOf(S) == CHOOSE i \in S : \A j \in S : j <= i

\* C7: with two or more replace sources, the dataset handed on to the secondary
\* sources, lookups and ordinary stages is the output of the replace source that
\* ran last.
C7_LastReplaceWins ==
    (call.initial /\ pc = "secondary" /\ idx = 1 /\ Cardinality(ReplaceCompleted) >= 2) =>
        df = events[LastOf(ReplaceCompleted)].df

\* two replace sources ran with different outputs and the later one is handed on
C7_Witness ==
    /\ call.initial /\ pc = "secondary" /\ idx = 1
    /\ Cardinality(ReplaceCompleted) >= 2
    /\ \E i \in ReplaceCompleted : events[i].df # events[LastOf(ReplaceCompleted)].df
    /\ df = events[LastOf(ReplaceCompleted)].df

\* C8: source resolution records the warning about several replace sources
\* exactly when it ran two or more replace sources.
C8_WarningOnMultipleReplace ==
    (call.initial /\ pc = "secondary") =>
        (HasEvent("warning", "multiple_replace") <=> Cardinality(ReplaceCompleted) >= 2)

\* the declared items (by position) that are present as a column of the dataset
\* handed in, mismatch its dtype and cannot be coerced under the pandas release the
\* call ran under
Offending ==
    {i \in 1..Len(rec_items) :
        /\ ~df.none
        /\ HasCol(df, rec_items[i].name)
        /\ Mismatch(df.cols[ColPos(df, rec_items[i].name)].dtype, rec_items[i].columnType)
        /\ Coerce(df.cols[ColPos(df, rec_items[i].name)].dtype, rec_items[i].columnType,
                  CellsOf(df, ColPos(df, rec_items[i].name)), rec_out.release) = "fail"}

\* the declared items that mismatch and can be coerced
Coercible ==
    {i \in 1..Len(rec_items) :
        /\ ~df.none
        /\ HasCol(df, rec_items[i].name)
        /\ Mismatch(df.cols[ColPos(df, rec_items[i].name)].dtype, rec_items[i].columnType)
        /\ Coerce(df.cols[ColPos(df, rec_items[i].name)].dtype, rec_items[i].columnType,
                  CellsOf(df, ColPos(df, rec_items[i].name)), rec_out.release) # "fail"}

NthOf(S, n) == CHOOSE i \in S : Cardinality({j \in S : j < i}) = n - 1

\* C9: type reconciliation raises exactly when some declared item present as a
\* column mismatches and cannot be coerced; the one error lists exactly those items,
\* in order, each with its actual and declared type; and every coercible item is
\* coerced whether or not an earlier item failed.
C9_AggregateAfterFullScan ==
    pc = "reconciled" =>
        /\ rec_out.kind = "raised" <=> Offending # {}
        /\ rec_out.kind \in {"raised", "returned"}
        /\ Len(rec_out.invalid) = Cardinality(Offending)
        /\ \A n \in 1..Cardinality(Offending) :
              LET it == rec_items[NthOf(Offending, n)]
              IN rec_out.invalid[n] =
                    <<it.name, DTypeName(df.cols[ColPos(df, it.name)].dtype), it.columnType>>
        /\ \A i \in Coercible :
              LET p == ColPos(df, rec_items[i].name)
              IN rec_df.cols[p].dtype =
                    Coerce(df.cols[p].dtype, rec_items[i].columnType, CellsOf(df, p),
                           rec_out.release)

\* the first and third item fail, the second one is coerced in between
C9_Witness ==
    /\ pc = "reconciled"
    /\ rec_out.kind = "raised"
    /\ Len(rec_items) = 3
    /\ Offending = {1, 3}
    /\ Coercible = {2}
    /\ rec_df # df

\* C10: a type reconciliation failure found while validating a stage's output
\* ends the run with that error, whatever the stage's abort-on-fail override: the
\* fault handler is not called and nothing follows the failure.
C10_TypeFailureFatal ==
    \A i \in DOMAIN events :
        events[i].ev = "type_error" =>
            /\ i = Len(events)
            /\ pc = "done"
            /\ result.kind = "raised"
            /\ result.exc = "Exception"

\* the run of a stage whose own override is false ended with the type error
C10_Witness ==
    /\ pc = "done"
    /\ result.kind = "raised"
    /\ result.exc = "Exception"
    /\ Len(events) > 0
    /\ events[Len(events)].ev = "type_error"
    /\ stages[events[Len(events)].stage].abort_on_fail = "false"

\* what the cleanup is to leave of a dataset: infinities turned into nulls, then
\* the rows dropped that are null in every column outside the system and the
\* excluded columns
NormalisedThenTrimmed(d) == DropNaAll(ReplaceInf(d), NullSubset(d))

\* C11: with null-cleanup (dropna) enabled, the cleanup step of execute turns
\* infinities into nulls and then drops exactly the rows that are null in every
\* non-key, non-excluded column; a row with a non-null value in such a column stays.
C11_CleanupDropsOnlyAllNullRows ==
    [][(pc = "post" /\ pc' = "loop" /\ call.dropna) =>
        df' = AddPreloadCols(NormalisedThenTrimmed(df), call.names \o preload_item_names, 1)]_vars

\* ${a}+${b} as written, and the same sum with the columns named in quotes
PlaceholderSum == JoinPlus(<<Placeholder(A), Placeholder(B)>>, 1)
QuotedSums == {JoinPlus(<<Subscript(q, A), Subscript(q, B)>>, 1) : q \in QuoteChars}

\* C12: on a dataset with columns a = [1, 2] and b = [3, 4], the expression
\* ${a}+${b} and its quoted equivalent both resolve to the input columns a and b
\* and both return the dataset with the output column holding the sum [4, 6].
C12_BothFormsResolveAndSum ==
    (/\ pc = "evaluated"
     /\ df = FrameAB
     /\ pexpr.expression \in {PlaceholderSum} \cup QuotedSums) =>
        /\ Range(pexpr.input_items) = {A, B}
        /\ pexpr_out.kind = "returned"
        /\ ColCells(pexpr_out.df, pexpr.name) = <<4, 6>>

\* the notes the except clauses of the stage runner append to the trace
ErrorNotes ==
    {"error:KeyError", "error:missing_property", "error:syntax", "error:value_or_type",
     "error:missing_object", "error:failed"}

\* an execute call of the stage runner whose error leaves the try block of lines
\* 332-336: a failed reduced call, or a failed full call that is not a TypeError
ExecFailed(e) ==
    \/ e.ev = "execute_reduced" /\ e.info # "ok"
    \/ e.ev = "execute_full" /\ e.info # "ok" /\ "TypeError" \notin e.classes

\* C13: every failure the stage runner classifies (a KeyError of conform_index,
\* an error leaving the stage's execute call) puts one error note about that stage
\* on the trace and is then handed once to the fault handler with the exception,
\* the stage and an abort-on-fail flag; each handler call directly follows its note.
C13_TraceThenHandler ==
    \A i \in DOMAIN events :
        /\ (IsRunnerExec(events[i]) /\ ExecFailed(events[i])) =>
              /\ i + 2 <= Len(events)
              /\ events[i + 1].ev = "trace" /\ events[i + 1].stage = events[i].stage
              /\ events[i + 1].info = TraceNote(Outcome(events[i].info, events[i].classes))
              /\ events[i + 2].ev = "raise_error" /\ events[i + 2].stage = events[i].stage
              /\ events[i + 2].info = events[i].info
        /\ (events[i].ev = "trace" /\ events[i].info \in ErrorNotes) =>
              /\ i + 1 <= Len(events)
              /\ events[i + 1].ev = "raise_error" /\ events[i + 1].stage = events[i].stage
              /\ events[i + 1].abort \in {"true", "false"}
              /\ (i + 2 <= Len(events) => events[i + 2].ev # "raise_error")
        /\ (events[i].ev = "raise_error" /\ events[i].stage > 0) =>
              /\ i > 1
              /\ events[i - 1].ev = "trace" /\ events[i - 1].stage = events[i].stage
              /\ events[i - 1].info \in ErrorNotes
              /\ events[i].info = "KeyError" <=> events[i - 1].info = "error:KeyError"

\* one call in which both kinds of failure were handed to the handler: the
\* KeyError of conform_index, suppressed, and later an error of an execute call
C13_Witness ==
    \E i, j \in DOMAIN events :
        /\ i + 1 < j
        /\ events[i].ev = "trace" /\ events[i].info = "error:KeyError"
        /\ events[i + 1].ev = "raise_error" /\ events[i + 1].abort = "false"
        /\ events[j].ev = "raise_error" /\ events[j].stage > 0
        /\ events[j].info # "KeyError"

\* C14: the abort-on-fail flag the stage runner hands to the fault handler for a
\* failing stage is the stage's own _abort_on_fail when the stage declares one,
\* and otherwise the default its caller supplied, which execute and source
\* resolution always give as true.
C14_AbortFlagFromStageOrCaller ==
    \A i \in DOMAIN events :
        (events[i].ev = "raise_error" /\ events[i].stage > 0) =>
            events[i].abort =
                (IF stages[events[i].stage].abort_on_fail = "absent" THEN AbortStr(TRUE)
                 ELSE stages[events[i].stage].abort_on_fail)

\* one call handed the handler the override false of one stage and the caller's
\* default true for a stage without override
C14_Witness ==
    \E i, j \in DOMAIN events :
        /\ events[i].ev = "raise_error" /\ events[i].stage > 0
        /\ stages[events[i].stage].abort_on_fail = "false"
        /\ events[i].abort = "false"
        /\ events[j].ev = "raise_error" /\ events[j].stage > 0
        /\ stages[events[j].stage].abort_on_fail = "absent"
        /\ events[j].abort = "true"

\* C15: when a stage's execute call raises and the fault handler suppresses the
\* failure (it is called with abort-on-fail false and returns), the run goes on:
\* the stage runner completes the stage run and returns a dataset to its caller.
C15_SuppressedFailureContinues ==
    \A i \in DOMAIN events :
        (/\ events[i].ev = "raise_error" /\ events[i].stage > 0
         /\ events[i].info # "KeyError"
         /\ ~HandlerRaises(events[i].abort = "true")) =>
            /\ ~(result.kind = "raised" /\ i = Len(events))
            /\ \E j \in DOMAIN events :
                  /\ j > i
                  /\ events[j].ev = "trace" /\ events[j].info = "completed"
                  /\ events[j].stage = events[i].stage

NoPreloadRun(evs) == \A i \in DOMAIN evs : evs[i].ev # "execute_preload"

\* Once the preload-complete flag is set, no step executes a preload stage, and a
\* preload phase that returns hands back no output-item names and exactly the
\* stages that are not preload stages.
PreloadSkippedOnceComplete ==
    is_preload_complete =>
        /\ \A i \in DOMAIN events' :
              events'[i].ev = "execute_preload" => (i <= Len(events) /\ events[i] = events'[i])
        /\ (pc = "preload" /\ pc' = "sources") =>
              /\ preload_item_names' = <<>>
              /\ run_stages' = ExtractPreloadStages(stages).stages

\* C16 as stated: once the preload-complete flag is set every later run of the
\* preload phase skips the preload stages, so that over any sequence of execute
\* calls each preload stage is run at most once. Every session's first call runs
\* its first preload stage, so a preload stage executed in a later call is run
\* for the second time.
C16_PreloadStagesRunAtMostOnce ==
    /\ [][PreloadSkippedOnceComplete]_vars
    /\ [](calls >= 2 => NoPreloadRun(events))

\* C16 amended: once the preload-complete flag is set, every later run of the
\* preload phase executes no preload stage, returns no output-item names and still
\* returns the stages that are not preload stages; a preload stage is run again
\* in a later call only while the flag is still unset, which is after a preload
\* phase that ended with a raised error or a missing output item.
C16_PreloadSkippedOnceFlagSet ==
    [][/\ PreloadSkippedOnceComplete
       /\ (calls >= 1 /\ ~is_preload_complete /\ is_preload_complete') =>
              (pc = "preload" /\ pc' = "sources")
       /\ (is_preload_complete => is_preload_complete')]_vars

\* a second initial-transform call whose preload phase passed over its preload
\* stage and returned the other stage
C16_Witness ==
    /\ calls >= 2
    /\ call.initial
    /\ pc = "sources" /\ idx = 1
    /\ Len(preload_stages) > 0
    /\ NoPreloadRun(events)
    /\ preload_item_names = <<>>
    /\ Len(run_stages) > 0

\* C17: when the preload phase has run a preload stage that exposes no output
\* item, the phase ends at once with the configuration error (AttributeError)
\* raised to the caller of execute: no later preload stage and no source, lookup
\* or ordinary stage is executed in that call.
C17_MissingOutputItemFailsFast ==
    \A i \in DOMAIN events :
        (/\ events[i].ev = "execute_preload" /\ events[i].info # "raise"
         /\ stages[events[i].stage].output_item = "absent") =>
            /\ pc = "done"
            /\ result = Raised("AttributeError", "preload")
            /\ \A j \in DOMAIN events : j > i => ~IsExec(events[j])
            /\ ~is_preload_complete

\* the call ended with the configuration error although the pipeline holds a
\* stage that is no preload stage
C17_Witness ==
    /\ pc = "done"
    /\ result = Raised("AttributeError", "preload")
    /\ \E pos \in 1..Len(stages) : MarkedRole(stages[pos]) # "preload"
    /\ \E i \in DOMAIN events :
          events[i].ev = "execute_preload" /\ stages[events[i].stage].output_item = "absent"

RECURSIVE LookupRuns(_, _)
\* the lookup stages the stage runner executed, in the order of their execution
LookupRuns(evs, i) ==
    IF i > Len(evs) THEN <<>>
    ELSE (IF evs[i].ev = "execute_full" /\ MarkedRole(stages[evs[i].stage]) = "lookup"
          THEN <<evs[i].stage>> ELSE <<>>) \o LookupRuns(evs, i + 1)

\* C18: in source resolution the first lookup stage is run only on a non-empty
\* dataset left by the primary and secondary sources; when that dataset is empty
\* source resolution returns without having run any lookup stage, and when it is
\* not, source resolution returns after having run every lookup stage once, in
\* encounter order (an error of a lookup stage ends the call in between).
C18_LookupsOnlyOnNonEmpty ==
    [][call.initial =>
        /\ (pc = "lookup" /\ idx = 1 /\ LookupRuns(events', 1) # <<>>) => ~Empty(df)
        /\ (pc = "lookup" /\ pc' = "post" /\ idx = 1) =>
              /\ LookupRuns(events', 1) = <<>>
              /\ Empty(df) \/ special_lookup_stages = <<>>
        /\ (pc = "lookup" /\ pc' = "post" /\ idx > 1) =>
              LookupRuns(events', 1) = special_lookup_stages
        /\ (pc' = "done" /\ call'.initial) =>
              /\ Len(LookupRuns(events', 1)) <= Len(special_lookup_stages')
              /\ LookupRuns(events', 1) =
                    SubSeq(special_lookup_stages', 1, Len(LookupRuns(events', 1)))]_vars

\* source resolution returned after two lookup stages ran although the first of
\* them had emptied the dataset
C18_Witness ==
    /\ call.initial
    /\ pc = "post"
    /\ Len(special_lookup_stages) = 2
    /\ LookupRuns(events, 1) = special_lookup_stages
    /\ Empty(df)

\* C19: the stage runner makes the reduced call execute(df) only after the full
\* call was rejected for its parameters before the stage's body ran; a stage whose
\* body raised in the full call is not called a second time, its error is
\* classified and handed to the fault handler.
C19_ReducedOnlyAfterSignatureRejection ==
    \A i \in DOMAIN events :
        /\ events[i].ev = "execute_reduced" =>
              /\ i > 1
              /\ events[i - 1].ev = "execute_full"
              /\ events[i - 1].stage = events[i].stage
              /\ events[i - 1].info = "TypeError_signature"
        /\ (events[i].ev = "execute_full"
            /\ events[i].info \notin {"ok", "TypeError_signature"}) =>
              /\ i + 2 <= Len(events)
              /\ events[i + 1].ev = "trace" /\ events[i + 1].info \in ErrorNotes
              /\ events[i + 2].ev = "raise_error" /\ events[i + 2].info = events[i].info

\* the rows of d that are null in every column outside the system and the
\* excluded columns
AllNullRows(d) ==
    {r \in 1..Len(d.rows) :
        \A c \in 1..Len(d.cols) : d.cols[c].name \in NullSubset(d) => d.rows[r][c] = "nan"}

\* C20: null-row trimming comes after the loop over the stages: with the
\* drop-all-null-rows setting on, the dataset execute returns holds no row that is
\* null in every non-key, non-excluded column, whatever the stages did to it.
C20_ReturnedDatasetTrimmed ==
    (pc = "done" /\ result.kind = "returned" /\ call.drop_all_null_rows) =>
        AllNullRows(result.df) = {}

\* the columns of a stage's output out that its input d does not have
NewCols(d, out) ==
    {out.cols[c].name : c \in 1..Len(out.cols)} \ {d.cols[c].name : c \in 1..Len(d.cols)}

\* what the cleanup of a stage run is to leave of the stage's output out for the
\* input d: infinities turned into nulls, then the rows dropped that are null in
\* every column the stage newly produced
TrimmedOnNewCols(d, out) == DropNaAll(ReplaceInf(out), NewCols(d, out))

\* the stage whose run the step from evs to evs2 completed, 0 when there is none
CompletedStage(evs, evs2) ==
    IF \E i \in DOMAIN evs2 : i > Len(evs) /\ evs2[i].ev = "trace" /\ evs2[i].info = "completed"
    THEN evs2[CHOOSE i \in DOMAIN evs2 :
                 i > Len(evs) /\ evs2[i].ev = "trace" /\ evs2[i].info = "completed"].stage
    ELSE 0

\* C21: when a stage run with null-cleanup (dropna) completes and the stage has
\* produced new columns, the dataset the stage runner returns is, for some output
\* the stage can have given, that output with infinities turned into nulls and
\* with only the rows dropped that are null in all of the new columns; rows with
\* a null in a pre-existing column or in only some new columns are kept.
C21_StageCleanupOnNewColumnsOnly ==
    [][(/\ call.dropna
        /\ CompletedStage(events, events') > 0
        /\ ~df.none
        /\ NewCols(df, df') # {}) =>
            \E b \in Behaviours(stages[CompletedStage(events, events')]) :
                LET out == StageOutput(df, CompletedStage(events, events'), b.out)
                IN /\ ExecError(b).name = "none"
                   /\ ColNames(df') = ColNames(out)
                   /\ df'.rows = TrimmedOnNewCols(df, out).rows]_vars

\* the declared items (by position) that name column p of the dataset handed in
\* and declare one of the four checked semantic types
DeclaredFor(p) ==
    {i \in 1..Len(rec_items) :
        /\ rec_items[i].name = df.cols[p].name
        /\ rec_items[i].columnType \in {"NUMBER", "LITERAL", "TIMESTAMP", "BOOLEAN"}}

\* C22: when type reconciliation returns without error, the dataset has the same
\* columns in the same places and the same rows as before; every column with a
\* declared item has a runtime type that matches the declared type, being the
\* coerced column where it mismatched and the unchanged column where it matched;
\* and a column without declared item is unchanged.
C22_ReturnedDatasetMatchesDeclaredTypes ==
    (pc = "reconciled" /\ rec_out.kind = "returned") =>
        /\ rec_df.none = df.none
        /\ ColNames(rec_df) = ColNames(df)
        /\ Len(rec_df.rows) = Len(df.rows)
        /\ \A p \in 1..Len(df.cols) :
              /\ \A i \in DeclaredFor(p) :
                    /\ ~Mismatch(rec_df.cols[p].dtype, rec_items[i].columnType)
                    /\ rec_df.cols[p].dtype =
                          (IF Mismatch(df.cols[p].dtype, rec_items[i].columnType)
                           THEN Coerce(df.cols[p].dtype, rec_items[i].columnType,
                                       CellsOf(df, p), rec_out.release)
                           ELSE df.cols[p].dtype)
              /\ (DeclaredFor(p) = {} \/ rec_df.cols[p].dtype = df.cols[p].dtype) =>
                    /\ rec_df.cols[p] = df.cols[p]
                    /\ \A r \in 1..Len(df.rows) : rec_df.rows[r][p] = df.rows[r][p]

\* reconciliation returned after coercing two columns, leaving one matching
\* column and one column without declared item as they were
C22_Witness ==
    /\ pc = "reconciled"
    /\ rec_out.kind = "returned"
    /\ Len(df.cols) = 3
    /\ Cardinality(Coercible) = 2
    /\ \E p \in 1..Len(df.cols) : DeclaredFor(p) = {}
    /\ Cardinality({p \in 1..Len(df.cols) : rec_df.cols[p] # df.cols[p]}) = 2

\* the dataset out is the dataset d with one more column, named w, at its end
OneNewColumn(d, out, w) ==
    /\ Len(out.cols) = Len(d.cols) + 1
    /\ SubSeq(out.cols, 1, Len(d.cols)) = d.cols
    /\ out.cols[Len(out.cols)].name = w
    /\ Len(out.rows) = Len(d.rows)
    /\ \A r \in 1..Len(d.rows) : SubSeq(out.rows[r], 1, Len(d.cols)) = d.rows[r]

\* C23: the dataset PipelineExpression.execute returns has every column of the
\* input dataset with unchanged values and the same rows, plus exactly one new
\* column named by the stage; and the call leaves the input dataset as it was.
C23_OneNewColumnInputUntouched ==
    /\ []((pc = "evaluated" /\ pexpr_out.kind = "returned") =>
            OneNewColumn(df, pexpr_out.df, pexpr.name))
    /\ [][pc = "expression" => df' = df]_vars

\* C24: in every state a session reaches from both flags unset, through any
\* sequence of execute calls that return or fail (the stage list may change in
\* between), initial-transform-complete implies preload-complete; and no step of
\* the pipeline resets a flag it has set.
C24_FlagsOrderedAndNeverReset ==
    /\ [](~is_initial_transform => is_preload_complete)
    /\ [][/\ is_preload_complete => is_preload_complete'
          /\ ~is_initial_transform => ~is_initial_transform']_vars

\* both flags are still set after a second call, which failed
C24_Witness ==
    /\ calls >= 2
    /\ pc = "done"
    /\ result.kind = "raised"
    /\ ~is_initial_transform
    /\ is_preload_complete

\* C25: in the loop over the stages left for the stage runner, a step that finds
\* the accumulated dataset empty before a stage executes no stage, ends the call and
\* returns that empty dataset; in an initial-transform run the same step still writes
\* back the unmatched members and marks the initial transform complete.
C25_EmptyDatasetEndsLoop ==
    [][(pc = "loop" /\ idx <= Len(run_stages) /\ Empty(df)) =>
          /\ pc' = "done"
          /\ result' = Returned(df)
          /\ \A i \in (Len(events) + 1)..Len(events') : ~IsExec(events'[i])
          /\ \E i \in (Len(events) + 1)..Len(events') :
                events'[i].ev = "info" /\ events'[i].info = "no_data_exit"
          /\ call.initial =>
                /\ ~is_initial_transform'
                /\ \E i \in (Len(events) + 1)..Len(events') :
                      events'[i].ev = "write_unmatched_members"
          /\ ~call.initial => is_initial_transform' = is_initial_transform]_vars

\* an initial-transform call whose first ordinary stage emptied the dataset: the
\* second stage was not run, the empty dataset was returned, the unmatched members
\* were written back and the initial transform is marked complete
C25_Witness ==
    /\ pc = "done"
    /\ call.initial
    /\ result.kind = "returned"
    /\ Empty(result.df)
    /\ idx = 2
    /\ Len(run_stages) = 2
    /\ HasEvent("info", "no_data_exit")
    /\ \E i \in DOMAIN events : IsRunnerExec(events[i]) /\ events[i].stage = run_stages[1]
    /\ \A i \in DOMAIN events : IsExec(events[i]) => events[i].stage # run_stages[2]
    /\ \E i \in DOMAIN events : events[i].ev = "write_unmatched_members"
    /\ ~is_initial_transform

\* the full-form calls the stage runner made in the current execute() call
FullCalls == {i \in DOMAIN events : events[i].ev = "execute_full"}

\* the stage positions the stage runner called, in the order of the calls
RunOrder == [n \in 1..Cardinality(FullCalls) |-> events[NthOf(FullCalls, n)].stage]

\* the current call was made with initial-transform-complete set and has ended
AfterInitialDone == pc = "done" /\ ~call.initial

\* a call made after initial-transform-complete without a dataset fails with the
\* "no source dataframe" error before any stage is executed
NoDatasetFailsFirst ==
    (AfterInitialDone /\ ~call.supplied) =>
        /\ result = Raised("ValueError", "post")
        /\ events = <<Ev("error", 0, "no_source_dataframe", "na")>>

\* no step of a call made after initial-transform-complete without a dataset
\* changes a session flag
NoDatasetKeepsFlags ==
    (pc' # "idle" /\ ~call'.initial /\ ~call'.supplied) =>
        /\ is_preload_complete' = is_preload_complete
        /\ is_initial_transform' = is_initial_transform

\* the stage runner is the only executor in the call, it takes the stages in
\* declared order from the first one on, and a stage without an abort flag of its
\* own is run with abort-on-fail true
RunnerTakesDeclaredOrder ==
    /\ \A i \in DOMAIN events : events[i].ev # "execute_preload"
    /\ RunOrder = IdxSeq(Len(RunOrder))
    /\ \A i \in DOMAIN events :
          (events[i].ev = "raise_error" /\ stages[events[i].stage].abort_on_fail = "absent")
              => events[i].abort = "true"

\* C26 as stated: a call made after initial-transform-complete with a dataset that
\* returns has run every stage of the pipeline, whatever its role, through the
\* stage runner in declared order with abort-on-fail default true; without a
\* dataset the call fails with the "no source dataframe" error before any stage is
\* executed and changes neither session flag.
C26_EveryStageRunAfterInitial ==
    /\ []((AfterInitialDone /\ call.supplied) =>
            /\ RunnerTakesDeclaredOrder
            /\ result.kind = "returned" => Len(RunOrder) = Len(stages))
    /\ []NoDatasetFailsFirst
    /\ [][NoDatasetKeepsFlags]_vars

\* C26: in a call made after initial-transform-complete with a dataset, the stage
\* runner runs the stages of the pipeline, whatever their role, in declared order
\* with abort-on-fail default true, up to the first stage that finds the dataset
\* empty (the call then returns the empty dataset) or whose failure ends the call;
\* without a dataset the call fails with the "no source dataframe" error before
\* any stage is executed and changes neither session flag.
C26_StagesRunInOrderUntilEmptyOrFailure ==
    /\ []((AfterInitialDone /\ call.supplied) =>
            /\ RunnerTakesDeclaredOrder
            /\ Len(RunOrder) < Len(stages) =>
                  \/ result.kind = "raised" /\ result.at = "loop"
                  \/ /\ result.kind = "returned"
                     /\ Empty(result.df)
                     /\ HasEvent("info", "no_data_exit"))
    /\ []NoDatasetFailsFirst
    /\ [][NoDatasetKeepsFlags]_vars

\* a call after initial-transform-complete ran a preload-role stage and a
\* source-role stage through the stage runner, in declared order, and returned
C26_Witness ==
    /\ AfterInitialDone
    /\ call.supplied
    /\ result.kind = "returned"
    /\ Len(stages) = 2
    /\ RunOrder = <<1, 2>>
    /\ MarkedRole(stages[1]) = "preload"
    /\ MarkedRole(stages[2]) \in {"replace", "outer"}

====
